---- MODULE Spec2Model ----
(***************************************************************************)
(* Model of the query orchestration pipeline of                            *)
(* src/orchestrator/app.py: call_agent and the /process_query handler.     *)
(*                                                                         *)
(* The file carries unresolved merge markers.  The model follows the       *)
(* "Stashed changes" side (symbol extraction, logger, the `info` filter)   *)
(* together with the lines common to both sides.  Three names of that side *)
(* are read as the objects the common lines use: `api_tasks` (line 158) is *)
(* the coroutines stored in api_tasks_with_timing_info (line 153), and     *)
(* `initial_results_gathered` (line 171) is `initial_results` (line 158).  *)
(* The *_start_time values only feed log_duration and are not modelled.    *)
(*                                                                         *)
(* A Python str is a sequence of TLA+ strings whose concatenation is the   *)
(* text: a query is a sequence of one-character strings, a message is a    *)
(* sequence of literal pieces.  A JSON value is a record [t, v] where t is *)
(* the Python type of the parsed value.                                    *)
(***************************************************************************)
EXTENDS Integers, Sequences, FiniteSets, TLC

(* ------------------------------ bounds -------------------------------- *)

\* Script runs of the Streamlit page followed in one session.
MaxRuns == 3

\* Requests the voice agent serves, one after the other.
MaxRequests == 3

\* Largest symbol set a modelled query extracts.
MaxSymbols == 2

\* Largest number of entries in a retrieval `results` list.
MaxResults == 2

(* --------------------------- JSON values ------------------------------ *)

Str(s) == [t |-> "str", v |-> s]

Dict(d) == [t |-> "dict", v |-> d]

List(l) == [t |-> "list", v |-> l]

Null == [t |-> "NoneType", v |-> 0]

Num(n) == [t |-> "int", v |-> n]

EmptyDict == Dict(<<>>)

\* isinstance(x, dict)
IsDict(x) == x.t = "dict"

\* d.get(key, default) on a dict
Get(d, key, default) == IF key \in DOMAIN d.v THEN d.v[key] ELSE default

\* s.startswith(prefix) under the piece representation of a str
StartsWith(s, prefix) == Len(s) > 0 /\ s[1] = prefix

(* ------------------------- symbol extraction -------------------------- *)

LowerCase == <<"a","b","c","d","e","f","g","h","i","j","k","l","m",
               "n","o","p","q","r","s","t","u","v","w","x","y","z">>

UpperCase == <<"A","B","C","D","E","F","G","H","I","J","K","L","M",
               "N","O","P","Q","R","S","T","U","V","W","X","Y","Z">>

Digits == {"0","1","2","3","4","5","6","7","8","9"}

IsUpperLetter(c) == \E i \in 1..26 : UpperCase[i] = c

IsLowerLetter(c) == \E i \in 1..26 : LowerCase[i] = c

\* \w of the regular expression
IsWordChar(c) == IsUpperLetter(c) \/ IsLowerLetter(c) \/ c \in Digits \/ c = "_"

UpperChar(c) ==
    IF IsLowerLetter(c)
    THEN UpperCase[CHOOSE i \in 1..26 : LowerCase[i] = c]
    ELSE c

\* str.upper()
Upper(s) == [i \in 1..Len(s) |-> UpperChar(s[i])]

\* name in text
Contains(text, name) ==
    \E i \in 1..(Len(text) - Len(name) + 1) :
        SubSeq(text, i, i + Len(name) - 1) = name

COMPANY_NAME_TO_SYMBOL_MAP ==
       <<"G","O","O","G","L","E">> :> <<"G","O","O","G","L">>
    @@ <<"A","L","P","H","A","B","E","T">> :> <<"G","O","O","G","L">>
    @@ <<"A","P","P","L","E">> :> <<"A","A","P","L">>
    @@ <<"M","I","C","R","O","S","O","F","T">> :> <<"M","S","F","T">>
    @@ <<"A","M","A","Z","O","N">> :> <<"A","M","Z","N">>
    @@ <<"T","E","S","L","A">> :> <<"T","S","L","A">>
    @@ <<"N","V","I","D","I","A">> :> <<"N","V","D","A">>
    @@ <<"M","E","T","A">> :> <<"M","E","T","A">>
    @@ <<"F","A","C","E","B","O","O","K">> :> <<"M","E","T","A">>
    @@ <<"B","E","R","K","S","H","I","R","E"," ","H","A","T","H","A","W","A","Y">> :> <<"B","R","K","-","B">>
    @@ <<"J","P","M","O","R","G","A","N"," ","C","H","A","S","E">> :> <<"J","P","M">>
    @@ <<"J","P","M","O","R","G","A","N">> :> <<"J","P","M">>
    @@ <<"J","O","H","N","S","O","N"," ","&"," ","J","O","H","N","S","O","N">> :> <<"J","N","J">>
    @@ <<"J","O","H","N","S","O","N"," ","A","N","D"," ","J","O","H","N","S","O","N">> :> <<"J","N","J">>
    @@ <<"V","I","S","A">> :> <<"V">>
    @@ <<"M","A","S","T","E","R","C","A","R","D">> :> <<"M","A">>
    @@ <<"P","R","O","C","T","E","R"," ","&"," ","G","A","M","B","L","E">> :> <<"P","G">>
    @@ <<"P","R","O","C","T","E","R"," ","A","N","D"," ","G","A","M","B","L","E">> :> <<"P","G">>
    @@ <<"N","E","T","F","L","I","X">> :> <<"N","F","L","X">>
    @@ <<"S","A","L","E","S","F","O","R","C","E">> :> <<"C","R","M">>
    @@ <<"A","D","O","B","E">> :> <<"A","D","B","E">>
    @@ <<"I","N","T","E","L">> :> <<"I","N","T","C">>
    @@ <<"C","I","S","C","O">> :> <<"C","S","C","O">>
    @@ <<"O","R","A","C","L","E">> :> <<"O","R","C","L">>
    @@ <<"W","A","L","M","A","R","T">> :> <<"W","M","T">>
    @@ <<"B","A","N","K"," ","O","F"," ","A","M","E","R","I","C","A">> :> <<"B","A","C">>
    @@ <<"E","X","X","O","N","M","O","B","I","L">> :> <<"X","O","M">>
    @@ <<"E","X","X","O","N">> :> <<"X","O","M">>
    @@ <<"U","N","I","T","E","D","H","E","A","L","T","H">> :> <<"U","N","H">>
    @@ <<"U","N","I","T","E","D"," ","H","E","A","L","T","H">> :> <<"U","N","H">>
    @@ <<"H","O","M","E"," ","D","E","P","O","T">> :> <<"H","D">>
    @@ <<"D","I","S","N","E","Y">> :> <<"D","I","S">>
    @@ <<"W","A","L","T"," ","D","I","S","N","E","Y">> :> <<"D","I","S">>
    @@ <<"C","H","E","V","R","O","N">> :> <<"C","V","X">>
    @@ <<"C","O","C","A","-","C","O","L","A">> :> <<"K","O">>
    @@ <<"C","O","C","A"," ","C","O","L","A">> :> <<"K","O">>
    @@ <<"P","E","P","S","I","C","O">> :> <<"P","E","P">>
    @@ <<"M","C","D","O","N","A","L","D","S">> :> <<"M","C","D">>
    @@ <<"V","E","R","I","Z","O","N">> :> <<"V","Z">>
    @@ <<"A","T","&","T">> :> <<"T">>
    @@ <<"A","T","T">> :> <<"T">>
    @@ <<"P","F","I","Z","E","R">> :> <<"P","F","E">>
    @@ <<"M","E","R","C","K">> :> <<"M","R","K">>

\* The same search with re.IGNORECASE: any word of one to five letters.
potential_direct_tickers_ignorecase(text) ==
    { SubSeq(text, i, j) : <<i, j>> \in
        { p \in (1..Len(text)) \X (1..Len(text)) :
            /\ p[1] <= p[2]
            /\ p[2] - p[1] + 1 <= 5
            /\ \A k \in p[1]..p[2] : IsUpperLetter(text[k]) \/ IsLowerLetter(text[k])
            /\ (p[1] = 1 \/ ~IsWordChar(text[p[1] - 1]))
            /\ (p[2] = Len(text) \/ ~IsWordChar(text[p[2] + 1])) } }

\* re.findall(r'\b([A-Z]{1,5})\b', text): the words of the text that are
\* one to five uppercase letters and nothing else.
potential_direct_tickers(text) ==
    { SubSeq(text, i, j) : <<i, j>> \in
        { p \in (1..Len(text)) \X (1..Len(text)) :
            /\ p[1] <= p[2]
            /\ p[2] - p[1] + 1 <= 5
            /\ \A k \in p[1]..p[2] : IsUpperLetter(text[k])
            /\ (p[1] = 1 \/ ~IsWordChar(text[p[1] - 1]))
            /\ (p[2] = Len(text) \/ ~IsWordChar(text[p[2] + 1])) } }

\* An extraction that looks the company names up in the query as typed.
extract_case_sensitive(text) ==
    { COMPANY_NAME_TO_SYMBOL_MAP[name] :
        name \in { n \in DOMAIN COMPANY_NAME_TO_SYMBOL_MAP :
                     Contains(text, n) } }
    \cup potential_direct_tickers(text)

\* The set built by lines 128-139 from request.query.
extract(text) ==
    { COMPANY_NAME_TO_SYMBOL_MAP[name] :
        name \in { n \in DOMAIN COMPANY_NAME_TO_SYMBOL_MAP :
                     Contains(Upper(text), n) } }
    \cup potential_direct_tickers(text)

QueryTSM ==
    <<"H","o","w"," ","i","s"," ","T","S","M"," ","d","o","i","n","g","?">>
QueryAppleXYZ ==
    <<"W","h","a","t"," ","a","b","o","u","t"," ","A","p","p","l","e"," ","a","n","d"," ","X","Y","Z","?">>
QueryNone ==
    <<"h","e","l","l","o"," ","t","h","e","r","e">>
QueryMETA ==
    <<"M","E","T","A"," ","u","p","?">>
QueryThree ==
    <<"M","e","t","a",","," ","I","B","M"," ","o","r"," ","V">>

QueryEmpty ==
    <<>>

QueryMixed ==
    <<"T","o","p"," ","5"," ","p","i","c","k","s","?">>

QueryLong ==
    <<"A","B","C","D","E","F"," ","a","t","t","e","n","t","i","o","n">>

AllQueries ==
    {QueryTSM, QueryAppleXYZ, QueryNone, QueryMETA, QueryThree,
     QueryEmpty, QueryMixed, QueryLong}

Queries == { q \in AllQueries : Cardinality(extract(q)) <= MaxSymbols }

\* The orderings list(extracted_symbols) can produce.
Orderings(S) ==
    { s \in [1..Cardinality(S) -> S] : \A i, j \in DOMAIN s : i # j => s[i] # s[j] }

(* ----------------------- Python values, exceptions -------------------- *)

\* An exception object: its class and what the handlers read from it.
Exc(type, status_code, detail) ==
    [t |-> type, v |-> [status_code |-> status_code, detail |-> detail]]

ExceptionTypes == {"HTTPException", "JSONDecodeError", "AttributeError", "ValidationError"}

\* isinstance(x, Exception)
IsException(x) == x.t \in ExceptionTypes

\* isinstance(x, HTTPException)
IsHTTPException(x) == x.t = "HTTPException"

\* The way a call ends: it returns val, or it raises the exception val.
Return(val) == [raised |-> FALSE, val |-> val]

Raise(exc) == [raised |-> TRUE, val |-> exc]

Pending == [raised |-> FALSE, val |-> [t |-> "pending", v |-> 0]]

(* ------------------------ collaborator responses ---------------------- *)

\* What client.request can end with: a transport error, or a response with
\* a status, a text and (when the text parses) a JSON value.
RequestError == [kind |-> "RequestError", status_code |-> 0,
                 text |-> <<"connection refused">>, json |-> Null, parses |-> FALSE]

Response(status_code, text) ==
    [kind |-> "response", status_code |-> status_code,
     text |-> text, json |-> Null, parses |-> FALSE]

JsonResponse(status_code, json) ==
    [kind |-> "response", status_code |-> status_code,
     text |-> <<"json">>, json |-> json, parses |-> TRUE]

\* One entry of the retriever's `results`.
ResultEntry(i) ==
    Dict([id |-> Num(10 - i), text |-> Str(<<"chunk">>), score |-> Num(i)])

RetrieverResponses ==
    {RequestError,
     Response(500, <<"Retrieval failed">>),
     Response(200, <<"not json">>),
     JsonResponse(200, Dict([other |-> Null])),
     JsonResponse(200, Dict([results |-> Null])),
     JsonResponse(200, List(<<>>))}
    \cup { JsonResponse(200, Dict([results |-> List([i \in 1..k |-> ResultEntry(i)])])) :
             k \in 0..MaxResults }

ApiResponses(symbol) ==
    {RequestError,
     Response(404, <<"Data not found for symbol ">> \o symbol),
     JsonResponse(200, Dict([price |-> List(<<>>),
                             info |-> Dict([symbol |-> Str(symbol),
                                            sector |-> Str(<<"Technology">>)])])),
     JsonResponse(200, Dict([price |-> List(<<>>)])),
     JsonResponse(200, Dict([price |-> List(<<>>), info |-> EmptyDict])),
     JsonResponse(200, Dict([price |-> List(<<>>), info |-> Null])),
     JsonResponse(200, List(<<>>))}

AnalysisResponses ==
    {RequestError,
     Response(500, <<"Analysis failed">>),
     Response(200, <<"not json">>),
     JsonResponse(200, Dict([risk_metrics |-> Dict([asia_tech_exposure_percent |-> Num(0)])])),
     JsonResponse(200, Str(<<"ok">>))}

LanguageResponses ==
    {RequestError,
     Response(500, <<"Synthesis failed">>),
     Response(200, <<"not json">>),
     JsonResponse(200, Dict([narrative |-> Str(<<"Markets are calm.">>)])),
     JsonResponse(200, EmptyDict),
     JsonResponse(200, Dict([narrative |-> Null])),
     JsonResponse(200, List(<<>>))}

(* ----------------------------- call_agent ----------------------------- *)

\* A test that leaves the two ends of the 4xx/5xx range out.
IsErrorStatus_exclusive(status_code) == status_code > 400 /\ status_code < 599

\* response.raise_for_status() raises for 4xx/5xx
IsErrorStatus(status_code) == status_code >= 400 /\ status_code <= 599

\* A client that reports every rejected call as 503.
call_agent_status_lost(http) ==
    IF http.kind = "RequestError"
    THEN Raise(Exc("HTTPException", 503, <<"Agent call failed: ">> \o http.text))
    ELSE IF IsErrorStatus(http.status_code)
    THEN Raise(Exc("HTTPException", 503, <<"Agent error: ">> \o http.text))
    ELSE IF ~http.parses
    THEN Raise(Exc("JSONDecodeError", 0, <<"Expecting value">>))
    ELSE Return(http.json)

call_agent(http) ==
    IF http.kind = "RequestError"
    THEN Raise(Exc("HTTPException", 503, <<"Agent call failed: ">> \o http.text))
    ELSE IF IsErrorStatus(http.status_code)
    THEN Raise(Exc("HTTPException", http.status_code, <<"Agent error: ">> \o http.text))
    ELSE IF ~http.parses
    THEN Raise(Exc("JSONDecodeError", 0, <<"Expecting value">>))
    ELSE Return(http.json)

(* ------------------------------- state -------------------------------- *)

VARIABLES
    pc,                              \* where the handler is suspended
    query,                           \* request.query
    extracted_symbols,               \* the set the extraction fills
    symbols_to_fetch,                \* list(extracted_symbols)
    tasks,                           \* the awaitables handed to asyncio.gather
    calls,                           \* HTTP requests issued so far, in order
    initial_results,                 \* what asyncio.gather returned
    retrieved_data,
    market_data_results,
    valid_market_data_for_analysis,
    analysis_results,
    final_narrative,
    analysis_call,                   \* the awaited call_agent of the analysis step
    language_call,                   \* the awaited call_agent of the synthesis step
    response,                        \* what the caller of /process_query gets
    client,                          \* the httpx.AsyncClient of the request
    session_state,                   \* st.session_state of the Streamlit page
    script,                          \* locals of the page's current script run
    temp_dir,                        \* the files in the voice agent's TEMP_DIR
    handler                          \* locals of the voice agent's running handler

vars == <<pc, query, extracted_symbols, symbols_to_fetch, tasks, calls, initial_results,
          retrieved_data, market_data_results, valid_market_data_for_analysis,
          analysis_results, final_narrative, analysis_call, language_call,
          response, client, session_state, script, temp_dir, handler>>

\* The state of the Streamlit page and of the voice agent, which the
\* orchestrator does not touch.
outside_orchestrator == <<session_state, script, temp_dir, handler>>

\* The state of process_query that the page and the voice agent do not
\* touch.
inside_orchestrator ==
    <<query, extracted_symbols, symbols_to_fetch, tasks, initial_results,
      retrieved_data, market_data_results, valid_market_data_for_analysis,
      analysis_results, final_narrative, analysis_call, language_call, client>>

\* A local that has not been assigned yet.
Unbound == [t |-> "unbound", v |-> 0]

NoResponse == [status_code |-> 0, body |-> Unbound]

\* top_k of the retriever payload
TopK == 3

\* total_aum of the analysis payload
TotalAum == 1000000

Request(agent, method, path, json) ==
    [agent |-> agent, method |-> method, path |-> path, json |-> json]

RetrieverRequest(q) ==
    Request("retriever", "POST", <<"/retrieve">>, [query |-> q, top_k |-> TopK])

ApiRequest(symbol) ==
    Request("api", "GET", <<"/stock/">> \o symbol, Unbound)

AnalysisRequest(valid) ==
    Request("analysis", "POST", <<"/analyze">>,
            [market_data |-> valid, total_aum |-> TotalAum])

\* A synthesis payload that leaves the error-marked entries out.
LanguageRequest_without_errors(q, rd, ar, mdr) ==
    Request("language", "POST", <<"/synthesize">>,
            [query |-> q, retrieved_context |-> rd, analysis_results |-> ar,
             market_data |-> [s \in {k \in DOMAIN mdr : "error" \notin DOMAIN mdr[k].v}
                                |-> mdr[s]]])

LanguageRequest(q, rd, ar, mdr) ==
    Request("language", "POST", <<"/synthesize">>,
            [query |-> q, retrieved_context |-> rd,
             analysis_results |-> ar, market_data |-> mdr])

\* No response yet.
NoHttp == [kind |-> "none", status_code |-> 0, text |-> <<>>, json |-> Null,
           parses |-> FALSE]

\* A call_agent coroutine: its request and, once it has finished, the
\* response it got and the way it ended.
Task(request) ==
    [request |-> request, done |-> FALSE, http |-> NoHttp, outcome |-> Pending]

Settled(request, http) ==
    [request |-> request, done |-> TRUE, http |-> http, outcome |-> call_agent(http)]

NotCalled == Task(Unbound)

\* A client closed by an explicit call at the end of the block, which an
\* exception skips.
AsyncClientExit_on_normal_exit_only(c, raised) == IF raised THEN c ELSE "closed"

\* Leaving the `async with httpx.AsyncClient(...)` block, normally or by an
\* exception: the client and its connections are closed.
AsyncClientExit(c, raised) == "closed"

\* The page and the voice agent are not running.
NoPageNoVoiceAgent ==
    /\ session_state = Unbound
    /\ script = Unbound
    /\ temp_dir = {}
    /\ handler = Unbound

\* d[key] = value on a Python dict held as a function
SetItem(d, key, value) ==
    [k \in DOMAIN d \cup {key} |-> IF k = key THEN value ELSE d[k]]

Init ==
    /\ pc = "start"
    /\ query \in Queries
    /\ extracted_symbols = {}
    /\ symbols_to_fetch = <<>>
    /\ tasks = <<>>
    /\ calls = <<>>
    /\ initial_results = <<>>
    /\ retrieved_data = Unbound
    /\ market_data_results = <<>>
    /\ valid_market_data_for_analysis = <<>>
    /\ analysis_results = Unbound
    /\ final_narrative = Unbound
    /\ analysis_call = NotCalled
    /\ language_call = NotCalled
    /\ response = NoResponse
    /\ client = "unopened"
    /\ NoPageNoVoiceAgent

(* ------------------ process_query up to the gather -------------------- *)

\* retrieval_task followed by one market-data coroutine per symbol, in the
\* order of symbols_to_fetch.
FanOutRequests(q, symbols) ==
    <<RetrieverRequest(q)>> \o [i \in 1..Len(symbols) |-> ApiRequest(symbols[i])]

FanOut ==
    /\ pc = "start"
    /\ extracted_symbols' = extract(query)
    /\ \E order \in Orderings(extract(query)) :
         /\ symbols_to_fetch' = order
         /\ tasks' = [i \in 1..(Len(order) + 1) |-> Task(FanOutRequests(query, order)[i])]
         /\ calls' = calls \o FanOutRequests(query, order)
    /\ pc' = "gather"
    /\ client' = "open"
    /\ UNCHANGED <<query, initial_results, retrieved_data,
                   market_data_results, valid_market_data_for_analysis,
                   analysis_results, final_narrative, analysis_call, language_call,
                   response>>
    /\ UNCHANGED outside_orchestrator

\* The responses the collaborator behind a request can give.
ResponsesTo(request) ==
    CASE request.agent = "retriever" -> RetrieverResponses
      [] request.agent = "api" -> ApiResponses(SubSeq(request.path, 2, Len(request.path)))
      [] request.agent = "analysis" -> AnalysisResponses
      [] request.agent = "language" -> LanguageResponses

\* A client that sends a failed request a second time before giving up.
Settle_retry(i) ==
    /\ pc = "gather"
    /\ ~tasks[i].done
    /\ \E http \in ResponsesTo(tasks[i].request) :
         IF /\ call_agent(http).raised
            /\ Cardinality({c \in DOMAIN calls : calls[c] = tasks[i].request}) < 2
         THEN /\ calls' = Append(calls, tasks[i].request)
              /\ tasks' = tasks
         ELSE /\ tasks' = [tasks EXCEPT ![i] = Settled(@.request, http)]
              /\ calls' = calls
    /\ UNCHANGED <<pc, query, extracted_symbols, symbols_to_fetch, initial_results, retrieved_data,
                   market_data_results, valid_market_data_for_analysis,
                   analysis_results, final_narrative, analysis_call, language_call,
                   response, client>>
    /\ UNCHANGED outside_orchestrator

\* One of the gathered call_agent coroutines finishes.
Settle(i) ==
    /\ pc = "gather"
    /\ ~tasks[i].done
    /\ \E http \in ResponsesTo(tasks[i].request) :
         tasks' = [tasks EXCEPT ![i] = Settled(@.request, http)]
    /\ UNCHANGED <<pc, query, extracted_symbols, symbols_to_fetch, calls, initial_results, retrieved_data,
                   market_data_results, valid_market_data_for_analysis,
                   analysis_results, final_narrative, analysis_call, language_call,
                   response, client>>
    /\ UNCHANGED outside_orchestrator

(* --------------------- the join and the aggregation -------------------- *)

\* asyncio.gather without return_exceptions: the first exception ends the
\* wait while the other calls are still running.
gather_returns_on_first_exception(ts) ==
    \/ \A i \in DOMAIN ts : ts[i].done
    \/ \E i \in DOMAIN ts : ts[i].done /\ ts[i].outcome.raised

\* await asyncio.gather(..., return_exceptions=True) resumes the handler
\* when every awaitable has finished.
gather_returns(ts) == \A i \in DOMAIN ts : ts[i].done

\* A join whose awaitables were passed with the retrieval call last:
\* gather(*api_tasks, retrieval_task).
gather_retrieval_last(ts) == [i \in 1..Len(ts) |-> ts[(i % Len(ts)) + 1].outcome.val]

\* asyncio.gather(*aws, return_exceptions=True): one result per awaitable, in
\* the order the awaitables were passed; a raised exception is its result.
gather(ts) == [i \in 1..Len(ts) |-> ts[i].outcome.val]

ErrorMarker(message) == Dict([error |-> Str(message)])

\* An entry that keeps a result of an unexpected type as it came.
market_data_entry_no_type_check(symbol, result) ==
    IF IsException(result)
    THEN ErrorMarker(<<"Failed to fetch data for ">> \o symbol)
    ELSE result

\* What the loop over symbols_to_fetch stores in market_data_results.
market_data_entry(symbol, result) ==
    IF IsException(result)
    THEN ErrorMarker(<<"Failed to fetch data for ">> \o symbol)
    ELSE IF IsDict(result)
    THEN result
    ELSE ErrorMarker(<<"Unexpected response type from API agent">>)

\* The test that admits a symbol to valid_market_data_for_analysis.
admitted_for_analysis(symbol, result) ==
    /\ ~IsException(result)
    /\ IsDict(result)
    /\ Len(symbol) > 0
    /\ IsDict(Get(result, "info", Null))

\* An analysis input that is the raw payload of the call.
analysis_entry_raw_payload(symbol, result) == result

\* The entry stored in valid_market_data_for_analysis.
analysis_entry(symbol, result) ==
    Dict([symbol |-> Str(symbol), info |-> Get(result, "info", Null)])

\* A loop that stores nothing for a result that is neither an exception nor
\* a dict.
RECURSIVE check_api_results_no_else(_, _, _, _, _)
check_api_results_no_else(i, symbols, results, mdr, valid) ==
    IF i > Len(symbols)
    THEN [market_data_results |-> mdr, valid_market_data_for_analysis |-> valid]
    ELSE LET symbol == symbols[i]
             result == results[i + 1]
         IN check_api_results_no_else(i + 1, symbols, results,
                IF IsException(result) \/ IsDict(result)
                THEN SetItem(mdr, symbol, market_data_entry(symbol, result))
                ELSE mdr,
                IF admitted_for_analysis(symbol, result)
                THEN SetItem(valid, symbol, analysis_entry(symbol, result))
                ELSE valid)

\* for i, symbol in enumerate(symbols_to_fetch): result = initial_results[i+1]
\* (i counts from 1 here, so the retrieval result is results[1]).
\* A loop that gives up at the first failed call: the symbols after it get
\* no entry.
RECURSIVE check_api_results_break_on_error(_, _, _, _, _)
check_api_results_break_on_error(i, symbols, results, mdr, valid) ==
    IF i > Len(symbols)
    THEN [market_data_results |-> mdr, valid_market_data_for_analysis |-> valid]
    ELSE LET symbol == symbols[i]
             result == results[i + 1]
         IN IF IsException(result)
            THEN [market_data_results |->
                      SetItem(mdr, symbol, market_data_entry(symbol, result)),
                  valid_market_data_for_analysis |-> valid]
            ELSE check_api_results_break_on_error(i + 1, symbols, results,
                     SetItem(mdr, symbol, market_data_entry(symbol, result)),
                     IF admitted_for_analysis(symbol, result)
                     THEN SetItem(valid, symbol, analysis_entry(symbol, result))
                     ELSE valid)

RECURSIVE check_api_results(_, _, _, _, _)
check_api_results(i, symbols, results, mdr, valid) ==
    IF i > Len(symbols)
    THEN [market_data_results |-> mdr, valid_market_data_for_analysis |-> valid]
    ELSE LET symbol == symbols[i]
             result == results[i + 1]
         IN check_api_results(i + 1, symbols, results,
                SetItem(mdr, symbol, market_data_entry(symbol, result)),
                IF admitted_for_analysis(symbol, result)
                THEN SetItem(valid, symbol, analysis_entry(symbol, result))
                ELSE valid)

\* An unwrapping that hands the entries on in the opposite order.
unwrap_retrieval_reversed(result) ==
    LET results == IF IsDict(result) THEN Get(result, "results", List(<<>>))
                   ELSE List(<<>>)
    IN IF results.t = "list"
       THEN List([i \in DOMAIN results.v |-> results.v[Len(results.v) + 1 - i]])
       ELSE results

\* initial_results[0].get('results', []) if isinstance(initial_results[0], dict) else []
unwrap_retrieval(result) ==
    IF IsDict(result) THEN Get(result, "results", List(<<>>)) ELSE List(<<>>)

\* A handler that tests for the class httpx raises, which call_agent has
\* already replaced by HTTPException.
retrieval_failed_wrong_class(result) == result.t = "RequestError"

\* A check that also rejects a body that is not a JSON object.
retrieval_failed_or_not_object(result) == IsException(result) \/ ~IsDict(result)

\* A check that takes only a transport failure (503) for a failed retrieval.
retrieval_failed_transport_only(result) ==
    IsException(result) /\ result.v.status_code = 503

\* isinstance(retrieval_result, Exception)
retrieval_failed(result) == IsException(result)

NoValidMarketData == ErrorMarker(<<"No valid market data for analysis">>)

DefaultNarrative == Str(<<"Error:", " Failed to generate narrative.">>)

RetrievalFailed == [status_code |-> 500, body |-> Str(<<"Failed to retrieve context.">>)]

\* An analysis step without the guard.
analysis_needed_always(valid) == TRUE

\* Whether the analysis collaborator is called.
analysis_needed(valid) == DOMAIN valid # {}

\* Every gathered call has settled: the handler resumes, classifies the
\* results and runs on to its next await (or to the fatal error).
Join ==
    /\ pc = "gather"
    /\ gather_returns(tasks)
    /\ LET results == gather(tasks)
           agg == check_api_results(1, symbols_to_fetch, results, <<>>, <<>>)
           mdr == agg.market_data_results
           valid == agg.valid_market_data_for_analysis
           rd == unwrap_retrieval(results[1])
       IN /\ initial_results' = results
          /\ IF retrieval_failed(results[1])
             THEN /\ pc' = "done"
                  /\ response' = RetrievalFailed
                  /\ client' = AsyncClientExit(client, TRUE)
                  /\ retrieved_data' = Null
                  /\ UNCHANGED <<market_data_results, valid_market_data_for_analysis,
                                 analysis_results, final_narrative, calls,
                                 analysis_call, language_call>>
             ELSE /\ retrieved_data' = rd
                  /\ market_data_results' = mdr
                  /\ valid_market_data_for_analysis' = valid
                  /\ analysis_results' = NoValidMarketData
                  /\ response' = response
                  /\ client' = client
                  /\ IF analysis_needed(valid)
                     THEN /\ calls' = Append(calls, AnalysisRequest(valid))
                          /\ analysis_call' = Task(AnalysisRequest(valid))
                          /\ pc' = "analysis"
                          /\ UNCHANGED <<final_narrative, language_call>>
                     ELSE /\ calls' = Append(calls,
                                 LanguageRequest(query, rd, NoValidMarketData, mdr))
                          /\ language_call' = Task(
                                 LanguageRequest(query, rd, NoValidMarketData, mdr))
                          /\ final_narrative' = DefaultNarrative
                          /\ pc' = "synthesis"
                          /\ UNCHANGED analysis_call
    /\ UNCHANGED <<query, extracted_symbols, symbols_to_fetch, tasks>>
    /\ UNCHANGED outside_orchestrator

(* --------------------------- analysis call ---------------------------- *)

\* Handlers that log the failure and leave analysis_results at its default.
analysis_result_of_keeps_default(outcome) ==
    IF ~outcome.raised THEN outcome.val ELSE NoValidMarketData

\* The try/except around the analysis call.
analysis_result_of(outcome) ==
    IF ~outcome.raised
    THEN outcome.val
    ELSE IF IsHTTPException(outcome.val)
    THEN ErrorMarker(<<"Analysis agent failed: ">> \o outcome.val.v.detail)
    ELSE ErrorMarker(<<"Unexpected error during analysis call: ">> \o outcome.val.v.detail)

\* A synthesis call built before the analysis outcome is known: it carries
\* the value analysis_results had when the analysis call was issued.
AnalysisSettle_stale_results ==
    /\ pc = "analysis"
    /\ \E http \in ResponsesTo(analysis_call.request) :
         LET call == Settled(analysis_call.request, http)
             ar == analysis_result_of(call.outcome)
             synthesis == LanguageRequest(query, retrieved_data, analysis_results,
                                          market_data_results)
         IN /\ analysis_call' = call
            /\ analysis_results' = ar
            /\ calls' = Append(calls, synthesis)
            /\ language_call' = Task(synthesis)
    /\ final_narrative' = DefaultNarrative
    /\ pc' = "synthesis"
    /\ UNCHANGED <<query, extracted_symbols, symbols_to_fetch, tasks, initial_results,
                   retrieved_data, market_data_results,
                   valid_market_data_for_analysis, response, client>>
    /\ UNCHANGED outside_orchestrator

\* The analysis call finishes: analysis_results takes its final value and
\* the handler runs on to the synthesis call.
AnalysisSettle ==
    /\ pc = "analysis"
    /\ \E http \in ResponsesTo(analysis_call.request) :
         LET call == Settled(analysis_call.request, http)
             ar == analysis_result_of(call.outcome)
             synthesis == LanguageRequest(query, retrieved_data, ar, market_data_results)
         IN /\ analysis_call' = call
            /\ analysis_results' = ar
            /\ calls' = Append(calls, synthesis)
            /\ language_call' = Task(synthesis)
    /\ final_narrative' = DefaultNarrative
    /\ pc' = "synthesis"
    /\ UNCHANGED <<query, extracted_symbols, symbols_to_fetch, tasks, initial_results,
                   retrieved_data, market_data_results,
                   valid_market_data_for_analysis, response, client>>
    /\ UNCHANGED outside_orchestrator

(* ---------------------- synthesis call and response ------------------- *)

\* The try/except around the synthesis call.
narrative_of(outcome) ==
    IF ~outcome.raised
    THEN IF IsDict(outcome.val)
         THEN Get(outcome.val, "narrative",
                  Str(<<"Error:", " No narrative content in response.">>))
         ELSE Str(<<"Error:", " Unexpected error during language agent call: ",
                    "object has no attribute 'get'">>)
    ELSE IF IsHTTPException(outcome.val)
    THEN Str(<<"Error:", " Language agent failed: ">> \o outcome.val.v.detail)
    ELSE Str(<<"Error:", " Unexpected error during language agent call: ">>
             \o outcome.val.v.detail)

\* retrieved_context: list[dict]
IsListOfDict(x) == x.t = "list" /\ \A i \in DOMAIN x.v : IsDict(x.v[i])

\* Validation of the fields of OrchestratorResponse (market_data is a dict by
\* construction).
OrchestratorResponseValid(rd, ar, fn) ==
    /\ IsListOfDict(rd)
    /\ IsDict(ar)
    /\ fn.t = "str"

OrchestratorResponse(rd, mdr, ar, fn) ==
    [retrieved_context |-> rd, market_data |-> mdr,
     analysis_results |-> ar, final_narrative |-> fn]

InternalServerError == [status_code |-> 500, body |-> Str(<<"Internal Server Error">>)]

\* return OrchestratorResponse(...): the response, or the 500 of a
\* ValidationError that nothing catches.
process_query_return(rd, mdr, ar, fn) ==
    IF OrchestratorResponseValid(rd, ar, fn)
    THEN [status_code |-> 200, body |-> OrchestratorResponse(rd, mdr, ar, fn)]
    ELSE InternalServerError

SynthesisSettle ==
    /\ pc = "synthesis"
    /\ \E http \in ResponsesTo(language_call.request) :
         LET call == Settled(language_call.request, http)
             fn == narrative_of(call.outcome)
         IN /\ language_call' = call
            /\ final_narrative' = fn
            /\ response' = process_query_return(retrieved_data, market_data_results,
                                                analysis_results, fn)
    /\ pc' = "done"
    /\ client' = AsyncClientExit(client, FALSE)
    /\ UNCHANGED <<query, extracted_symbols, symbols_to_fetch, tasks, calls, initial_results,
                   retrieved_data, market_data_results,
                   valid_market_data_for_analysis, analysis_results, analysis_call>>
    /\ UNCHANGED outside_orchestrator

Next ==
    \/ FanOut
    \/ \E i \in DOMAIN tasks : Settle(i)
    \/ Join
    \/ AnalysisSettle
    \/ SynthesisSettle

Spec == Init /\ [][Next]_vars

\* The event loop resumes a handler whose await has finished, and every
\* call made through the client ends: by a response, by a transport error
\* or by the client's timeout of 30 s.
Fairness ==
    /\ WF_vars(FanOut)
    /\ WF_vars(\E i \in DOMAIN tasks : Settle(i))
    /\ WF_vars(Join)
    /\ WF_vars(AnalysisSettle)
    /\ WF_vars(SynthesisSettle)

SpecLive == Init /\ [][Next]_vars /\ Fairness

(* ------------------- call_agent on its own inputs --------------------- *)

\* Statuses of the responses call_agent is applied to below: 2xx, and the
\* ends and the inside of the 4xx/5xx range.
ClientStatuses == {200, 201, 400, 404, 422, 499, 500, 503, 599}

ClientResponses ==
    {RequestError,
     [RequestError EXCEPT !.text = <<"timed out">>]}
    \cup { Response(status, <<"plain text">>) : status \in ClientStatuses }
    \cup { JsonResponse(status, Dict([detail |-> Str(<<"body">>)])) : status \in ClientStatuses }
    \cup { JsonResponse(status, List(<<>>)) : status \in ClientStatuses }

ClientRequests ==
    {RetrieverRequest(QueryNone),
     ApiRequest(<<"T", "S", "M">>),
     AnalysisRequest(<<>>),
     LanguageRequest(QueryNone, List(<<>>), EmptyDict, <<>>)}

\* One call_agent coroutine, about to be awaited.
InitClient ==
    /\ pc = "call_agent"
    /\ query = QueryNone
    /\ extracted_symbols = {}
    /\ symbols_to_fetch = <<>>
    /\ \E request \in ClientRequests : tasks = <<Task(request)>>
    /\ calls = <<>>
    /\ initial_results = <<>>
    /\ retrieved_data = Unbound
    /\ market_data_results = <<>>
    /\ valid_market_data_for_analysis = <<>>
    /\ analysis_results = Unbound
    /\ final_narrative = Unbound
    /\ analysis_call = NotCalled
    /\ language_call = NotCalled
    /\ response = NoResponse
    /\ client = "open"
    /\ NoPageNoVoiceAgent

\* client.request ends and call_agent returns or raises.
ClientCall ==
    /\ pc = "call_agent"
    /\ \E http \in ClientResponses :
         /\ tasks' = <<Settled(tasks[1].request, http)>>
         /\ calls' = <<tasks[1].request>>
    /\ pc' = "returned"
    /\ UNCHANGED <<query, extracted_symbols, symbols_to_fetch, initial_results,
                   retrieved_data, market_data_results, valid_market_data_for_analysis,
                   analysis_results, final_narrative, analysis_call, language_call,
                   response, client>>
    /\ UNCHANGED outside_orchestrator

NextClient == ClientCall

SpecClient == InitClient /\ [][NextClient]_vars

(* ------------------- two requests served interleaved ------------------ *)

\* The event loop runs one process_query coroutine per request; each runs
\* from one await to the next without interruption. Below every variable
\* holds one value per request.
RequestIds == {1, 2}

PairQueries == {QueryTSM, QueryMETA, QueryNone}

\* The responses given to the two requests.
PairResponsesTo(request) ==
    CASE request.agent = "retriever" ->
           {RequestError,
            JsonResponse(200, Dict([results |-> List(<<ResultEntry(1)>>)]))}
      [] request.agent = "api" ->
           LET symbol == SubSeq(request.path, 2, Len(request.path))
           IN {Response(404, <<"Data not found for symbol ">> \o symbol),
               JsonResponse(200, Dict([price |-> List(<<>>),
                                       info |-> Dict([symbol |-> Str(symbol),
                                                      sector |-> Str(<<"Technology">>)])]))}
      [] request.agent = "analysis" ->
           {Response(500, <<"Analysis failed">>),
            JsonResponse(200, Dict([risk_metrics |->
                                      Dict([asia_tech_exposure_percent |-> Num(0)])]))}
      [] request.agent = "language" ->
           {RequestError,
            JsonResponse(200, Dict([narrative |-> Str(<<"Markets are calm.">>)]))}

\* Locals bound in a frame shared by all requests (module-level names).
frame_module_level(r) == 1

\* The frame holding the locals of request r: each call of process_query
\* binds retrieved_data, market_data_results, ... afresh in its own frame.
frame(r) == r

InitPair ==
    /\ pc = [r \in RequestIds |-> "start"]
    /\ query \in [RequestIds -> PairQueries]
    /\ extracted_symbols = [r \in RequestIds |-> {}]
    /\ symbols_to_fetch = [r \in RequestIds |-> <<>>]
    /\ tasks = [r \in RequestIds |-> <<>>]
    /\ calls = [r \in RequestIds |-> <<>>]
    /\ initial_results = [r \in RequestIds |-> <<>>]
    /\ retrieved_data = [r \in RequestIds |-> Unbound]
    /\ market_data_results = [r \in RequestIds |-> <<>>]
    /\ valid_market_data_for_analysis = [r \in RequestIds |-> <<>>]
    /\ analysis_results = [r \in RequestIds |-> Unbound]
    /\ final_narrative = [r \in RequestIds |-> Unbound]
    /\ analysis_call = [r \in RequestIds |-> NotCalled]
    /\ language_call = [r \in RequestIds |-> NotCalled]
    /\ response = [r \in RequestIds |-> NoResponse]
    /\ client = [r \in RequestIds |-> "unopened"]
    /\ NoPageNoVoiceAgent

PairFanOut(r) ==
    /\ pc[r] = "start"
    /\ extracted_symbols' = [extracted_symbols EXCEPT ![r] = extract(query[r])]
    /\ \E order \in Orderings(extract(query[r])) :
         /\ symbols_to_fetch' = [symbols_to_fetch EXCEPT ![r] = order]
         /\ tasks' = [tasks EXCEPT ![r] =
                        [i \in 1..(Len(order) + 1) |->
                            Task(FanOutRequests(query[r], order)[i])]]
         /\ calls' = [calls EXCEPT ![r] = @ \o FanOutRequests(query[r], order)]
    /\ pc' = [pc EXCEPT ![r] = "gather"]
    /\ client' = [client EXCEPT ![r] = "open"]
    /\ UNCHANGED <<query, initial_results, retrieved_data,
                   market_data_results, valid_market_data_for_analysis,
                   analysis_results, final_narrative, analysis_call, language_call,
                   response>>
    /\ UNCHANGED outside_orchestrator

PairSettle(r, i) ==
    /\ pc[r] = "gather"
    /\ ~tasks[r][i].done
    /\ \E http \in PairResponsesTo(tasks[r][i].request) :
         tasks' = [tasks EXCEPT ![r][i] = Settled(@.request, http)]
    /\ UNCHANGED <<pc, query, extracted_symbols, symbols_to_fetch, calls, initial_results, retrieved_data,
                   market_data_results, valid_market_data_for_analysis,
                   analysis_results, final_narrative, analysis_call, language_call,
                   response, client>>
    /\ UNCHANGED outside_orchestrator

\* Lines 158-255 of one request, from the return of the gather to its next
\* await.
PairJoin(r) ==
    /\ pc[r] = "gather"
    /\ gather_returns(tasks[r])
    /\ LET f == frame(r)
           results == gather(tasks[r])
           agg == check_api_results(1, symbols_to_fetch[r], results, <<>>, <<>>)
           mdr == agg.market_data_results
           valid == agg.valid_market_data_for_analysis
           rd == unwrap_retrieval(results[1])
           failed == retrieval_failed(results[1])
           needed == analysis_needed(valid)
           synthesis == LanguageRequest(query[r], rd, NoValidMarketData, mdr)
       IN /\ initial_results' = [initial_results EXCEPT ![r] = results]
          /\ retrieved_data' = [retrieved_data EXCEPT ![f] = IF failed THEN Null ELSE rd]
          /\ market_data_results' =
                [market_data_results EXCEPT ![f] = IF failed THEN <<>> ELSE mdr]
          /\ valid_market_data_for_analysis' =
                [valid_market_data_for_analysis EXCEPT ![f] = IF failed THEN <<>> ELSE valid]
          /\ analysis_results' =
                [analysis_results EXCEPT ![f] = IF failed THEN @ ELSE NoValidMarketData]
          /\ final_narrative' =
                [final_narrative EXCEPT ![f] =
                    IF failed \/ needed THEN @ ELSE DefaultNarrative]
          /\ response' = [response EXCEPT ![r] = IF failed THEN RetrievalFailed ELSE @]
          /\ client' = [client EXCEPT ![r] =
                          IF failed THEN AsyncClientExit(@, TRUE) ELSE @]
          /\ calls' = [calls EXCEPT ![r] =
                         IF failed THEN @
                         ELSE IF needed THEN Append(@, AnalysisRequest(valid))
                         ELSE Append(@, synthesis)]
          /\ analysis_call' = [analysis_call EXCEPT ![r] =
                                 IF ~failed /\ needed
                                 THEN Task(AnalysisRequest(valid)) ELSE @]
          /\ language_call' = [language_call EXCEPT ![r] =
                                 IF ~failed /\ ~needed THEN Task(synthesis) ELSE @]
          /\ pc' = [pc EXCEPT ![r] =
                      IF failed THEN "done"
                      ELSE IF needed THEN "analysis" ELSE "synthesis"]
    /\ UNCHANGED <<query, extracted_symbols, symbols_to_fetch, tasks>>
    /\ UNCHANGED outside_orchestrator

PairAnalysisSettle(r) ==
    /\ pc[r] = "analysis"
    /\ \E http \in PairResponsesTo(analysis_call[r].request) :
         LET f == frame(r)
             call == Settled(analysis_call[r].request, http)
             ar == analysis_result_of(call.outcome)
             synthesis == LanguageRequest(query[r], retrieved_data[f], ar,
                                          market_data_results[f])
         IN /\ analysis_call' = [analysis_call EXCEPT ![r] = call]
            /\ analysis_results' = [analysis_results EXCEPT ![f] = ar]
            /\ calls' = [calls EXCEPT ![r] = Append(@, synthesis)]
            /\ language_call' = [language_call EXCEPT ![r] = Task(synthesis)]
            /\ final_narrative' = [final_narrative EXCEPT ![f] = DefaultNarrative]
    /\ pc' = [pc EXCEPT ![r] = "synthesis"]
    /\ UNCHANGED <<query, extracted_symbols, symbols_to_fetch, tasks, initial_results,
                   retrieved_data, market_data_results,
                   valid_market_data_for_analysis, response, client>>
    /\ UNCHANGED outside_orchestrator

PairSynthesisSettle(r) ==
    /\ pc[r] = "synthesis"
    /\ \E http \in PairResponsesTo(language_call[r].request) :
         LET f == frame(r)
             call == Settled(language_call[r].request, http)
             fn == narrative_of(call.outcome)
         IN /\ language_call' = [language_call EXCEPT ![r] = call]
            /\ final_narrative' = [final_narrative EXCEPT ![f] = fn]
            /\ response' = [response EXCEPT ![r] =
                  process_query_return(retrieved_data[f], market_data_results[f],
                                       analysis_results[f], fn)]
    /\ pc' = [pc EXCEPT ![r] = "done"]
    /\ client' = [client EXCEPT ![r] = AsyncClientExit(@, FALSE)]
    /\ UNCHANGED <<query, extracted_symbols, symbols_to_fetch, tasks, calls, initial_results,
                   retrieved_data, market_data_results,
                   valid_market_data_for_analysis, analysis_results, analysis_call>>
    /\ UNCHANGED outside_orchestrator

NextPair ==
    \E r \in RequestIds :
        \/ PairFanOut(r)
        \/ \E i \in DOMAIN tasks[r] : PairSettle(r, i)
        \/ PairJoin(r)
        \/ PairAnalysisSettle(r)
        \/ PairSynthesisSettle(r)

SpecPair == InitPair /\ [][NextPair]_vars

(* ------------------------- the Streamlit page ------------------------- *)

\* Streamlit runs the script of the page from top to bottom on every
\* interaction; a new interaction stops the current run at its next st.*
\* call and starts the script again. pc is the st.* call or the HTTP call
\* the current run is at.

\* The process_query handler is not part of this specification.
OrchestratorNotRunning ==
    /\ query = <<>>
    /\ extracted_symbols = {}
    /\ symbols_to_fetch = <<>>
    /\ tasks = <<>>
    /\ initial_results = <<>>
    /\ retrieved_data = Unbound
    /\ market_data_results = <<>>
    /\ valid_market_data_for_analysis = <<>>
    /\ analysis_results = Unbound
    /\ final_narrative = Unbound
    /\ analysis_call = NotCalled
    /\ language_call = NotCalled
    /\ client = "unopened"

\* bool(x) of a value
Truthy(x) ==
    /\ x # Null
    /\ x.t \in {"str", "bytes", "list"} => x.v # <<>>
    /\ x.t = "dict" => DOMAIN x.v # {}

Bytes(b) == [t |-> "bytes", v |-> b]

PageQueries == {Str(<<"How is TSM doing?">>), Str(<<"What about Apple?">>)}

\* len(audio) == 0: nothing was recorded.
NoAudio == [t |-> "no audio", v |-> 0]

\* What call_stt returns for a recording: the transcript, an empty text, or
\* None when the request failed.
Transcripts == PageQueries \cup {Str(<<>>), Null}

\* What call_orchestrator returns for a query: the body of a 200 response,
\* or None when the request failed.
OrchestratorReplies(q) ==
    {Null,
     EmptyDict,
     Dict([retrieved_context |-> List(<<>>), market_data |-> EmptyDict]),
     Dict([retrieved_context |-> List(<<>>), market_data |-> EmptyDict,
           analysis_results |-> NoValidMarketData,
           final_narrative |-> Str(<<"Brief on ">> \o q.v)]),
     Dict([retrieved_context |-> List(<<>>), market_data |-> EmptyDict,
           analysis_results |-> NoValidMarketData,
           final_narrative |-> Str(<<>>)]),
     Dict([retrieved_context |-> List(<<>>), market_data |-> EmptyDict,
           analysis_results |-> NoValidMarketData,
           final_narrative |-> Str(<<"Error:", " Language agent failed: 503">>)])}

\* What call_tts returns for a text: the audio of that text, an empty
\* body, or None when the request failed.
TtsReplies(text) == {Null, Bytes(<<>>), Bytes(text.v)}

OrchestratorFailedNarrative ==
    Str(<<"Error:", " Failed to get response from the orchestrator.">>)

NoNarrativeGenerated == Str(<<"Error:", " No narrative generated.">>)

\* A page that takes every submitted query for a new one.
is_new_query_always(text, last_query) == TRUE

\* transcript != st.session_state.last_query, text_input != st.session_state.last_query
is_new_query(text, last_query) == text # last_query

\* query_text as lines 85-120 leave it.
query_text_of(audio, text_input, submit_button, last_query) ==
    IF submit_button /\ Truthy(text_input) /\ is_new_query(text_input, last_query)
    THEN text_input
    ELSE IF audio # NoAudio /\ Truthy(audio) /\ is_new_query(audio, last_query)
    THEN audio
    ELSE Null

\* A reset that leaves the audio of the previous answer in place.
clear_previous_output_keeps_audio(ss, query_text) ==
    [ss EXCEPT !.narrative = Null, !.raw_data = Null, !.last_query = query_text]

\* Lines 123-127: a new query clears the previous output and is recorded.
clear_previous_output(ss, query_text) ==
    [last_query |-> query_text, narrative |-> Null,
     audio_bytes |-> Null, raw_data |-> Null]

\* A narrative that is spoken: `narrative and not narrative.startswith("Error:")`
speakable(narrative) ==
    Truthy(narrative) /\ ~StartsWith(narrative.v, "Error:")

OrchestratorCall(q) ==
    Request("orchestrator", "POST", <<"/process_query">>, [query |-> q.v])

TtsCall(text) == Request("voice", "POST", <<"/tts">>, [text |-> text.v])

InitPage ==
    /\ pc = "idle"
    /\ session_state = [last_query |-> Null, narrative |-> Null,
                        audio_bytes |-> Null, raw_data |-> Null]
    /\ script = [run |-> 0, audio |-> NoAudio, text_input |-> Str(<<>>),
                 submit_button |-> FALSE, query_text |-> Null]
    /\ calls = <<>>
    /\ response = NoResponse
    /\ temp_dir = {}
    /\ handler = Unbound
    /\ OrchestratorNotRunning

\* An interaction starts the script: lines 85-127, up to the first st.* call
\* of the processing block, or to the end when there is no new query.
Rerun ==
    /\ pc \in {"idle", "processing", "orchestrator_failed", "synthesizing"}
    /\ script.run < MaxRuns
    /\ \E audio \in {NoAudio} \cup Transcripts,
          text_input \in {Str(<<>>)} \cup PageQueries,
          submit_button \in BOOLEAN :
         LET query_text == query_text_of(audio, text_input, submit_button,
                                         session_state.last_query)
         IN /\ script' = [run |-> script.run + 1, audio |-> audio,
                         text_input |-> text_input,
                         submit_button |-> submit_button,
                         query_text |-> query_text]
            /\ session_state' = IF query_text # Null
                                THEN clear_previous_output(session_state, query_text)
                                ELSE session_state
            /\ pc' = IF Truthy(query_text) THEN "processing" ELSE "idle"
    /\ UNCHANGED <<calls, response, temp_dir, handler>>
    /\ UNCHANGED inside_orchestrator

\* Line 134: requests.post to /process_query.
CallOrchestrator ==
    /\ pc = "processing"
    /\ calls' = Append(calls, OrchestratorCall(script.query_text))
    /\ pc' = "orchestrator"
    /\ UNCHANGED <<session_state, script, response, temp_dir, handler>>
    /\ UNCHANGED inside_orchestrator

\* call_orchestrator returns: lines 136-150, up to the next st.* call.
OrchestratorReturns ==
    /\ pc = "orchestrator"
    /\ \E orchestrator_response \in OrchestratorReplies(script.query_text) :
         IF Truthy(orchestrator_response)
         THEN LET narrative == Get(orchestrator_response, "final_narrative",
                                   NoNarrativeGenerated)
              IN IF speakable(narrative)
                 THEN /\ session_state' = [session_state EXCEPT
                                             !.narrative = narrative,
                                             !.raw_data = orchestrator_response]
                      /\ pc' = "synthesizing"
                 ELSE /\ session_state' = [session_state EXCEPT
                                             !.narrative = narrative,
                                             !.raw_data = orchestrator_response,
                                             !.audio_bytes = Null]
                      /\ pc' = "idle"
         ELSE /\ session_state' = session_state
              /\ pc' = "orchestrator_failed"
    /\ UNCHANGED <<script, calls, response, temp_dir, handler>>
    /\ UNCHANGED inside_orchestrator

\* Lines 150-154, after st.error.
OrchestratorFailed ==
    /\ pc = "orchestrator_failed"
    /\ session_state' = [session_state EXCEPT
                           !.narrative = OrchestratorFailedNarrative,
                           !.audio_bytes = Null,
                           !.raw_data = Null]
    /\ pc' = "idle"
    /\ UNCHANGED <<script, calls, response, temp_dir, handler>>
    /\ UNCHANGED inside_orchestrator

\* Lines 143-144: requests.post to /tts.
CallTts ==
    /\ pc = "synthesizing"
    /\ calls' = Append(calls, TtsCall(session_state.narrative))
    /\ pc' = "tts"
    /\ UNCHANGED <<session_state, script, response, temp_dir, handler>>
    /\ UNCHANGED inside_orchestrator

\* Line 145: call_tts returns.
TtsReturns ==
    /\ pc = "tts"
    /\ \E audio_response_bytes \in TtsReplies(session_state.narrative) :
         session_state' = [session_state EXCEPT !.audio_bytes = audio_response_bytes]
    /\ pc' = "idle"
    /\ UNCHANGED <<script, calls, response, temp_dir, handler>>
    /\ UNCHANGED inside_orchestrator

NextPage ==
    \/ Rerun
    \/ CallOrchestrator
    \/ OrchestratorReturns
    \/ OrchestratorFailed
    \/ CallTts
    \/ TtsReturns

SpecPage == InitPage /\ [][NextPage]_vars

(* --------------------------- the voice agent -------------------------- *)

\* The two handlers of the voice agent run without waiting between the
\* creation of their temporary file and their return, except for
\* `await audio_file.close()` in /stt and for the sending of the
\* FileResponse after /tts has returned. handler holds the locals of the
\* latest request; pc tells whether it is still running.

\* A file of TEMP_DIR: tempfile gives every request a name of its own.
File(name, kind, content) == [name |-> name, kind |-> kind, content |-> content]

\* os.remove(path)
Remove(files, name) == { f \in files : f.name # name }

\* os.path.exists(path)
Exists(files, name) == \E f \in files : f.name = name

\* os.path.getsize(path) == 0
IsEmptyFile(files, name) == \E f \in files : f.name = name /\ f.content = "empty"

HttpError(status_code, detail) == [status_code |-> status_code, body |-> Str(detail)]

\* The ways the saving of the upload (lines 102-105) can end: the file is
\* complete, the copy broke off, or the file could not be created.
SaveOutcomes == {"saved", "copy failed", "create failed"}

\* What stt_model.transcribe gives: a result with its text, a result
\* without text, or an exception.
TranscribeOutcomes ==
    {Return(Dict([text |-> Str(<<"How is TSM doing?">>)])),
     Return(Dict([text |-> Str(<<>>)])),
     Return(EmptyDict),
     Raise(Exc("RuntimeError", 0, <<"ffmpeg not found">>))}

\* The ways tts_model.tts_to_file can end: the speech is written, it
\* returns leaving the file empty, or it raises with the file empty or
\* partly written.
SynthesisOutcomes == {"speech", "empty", "raises", "raises partial"}

\* The texts sent to /tts.
TtsTexts == {Str(<<>>), Str(<<" ", " ">>), Str(<<"Markets are calm.">>)}

\* not text.strip()
IsBlank(text) == \A i \in DOMAIN text.v : text.v[i] = " "

NoRequest ==
    [n |-> 0, endpoint |-> "none", path |-> 0, save |-> "none",
     outcome |-> Pending, text |-> Null]

InitVoice ==
    /\ pc = "idle"
    /\ temp_dir = {}
    /\ \E stt_model \in BOOLEAN, tts_model \in BOOLEAN :
         handler = [locals |-> NoRequest, stt_model |-> stt_model,
                    tts_model |-> tts_model]
    /\ response = NoResponse
    /\ calls = <<>>
    /\ session_state = Unbound
    /\ script = Unbound
    /\ OrchestratorNotRunning

\* Lines 96-113 of /stt: the model check and the saving of the upload, up
\* to `await audio_file.close()`.
SttSave ==
    /\ pc = "idle"
    /\ handler.locals.n < MaxRequests
    /\ LET n == handler.locals.n + 1
       IN IF ~handler.stt_model
          THEN /\ response' = HttpError(500, <<"STT model not loaded.">>)
               /\ handler' = [handler EXCEPT !.locals =
                     [NoRequest EXCEPT !.n = n, !.endpoint = "stt"]]
               /\ pc' = "idle"
               /\ temp_dir' = temp_dir
          ELSE \E save \in SaveOutcomes :
               /\ temp_dir' =
                     CASE save = "saved" -> temp_dir \cup {File(n, "upload", "audio")}
                       [] save = "copy failed" -> temp_dir \cup {File(n, "upload", "partial")}
                       [] save = "create failed" -> temp_dir
               /\ handler' = [handler EXCEPT !.locals =
                     [NoRequest EXCEPT !.n = n, !.endpoint = "stt", !.save = save,
                                       !.path = IF save = "saved" THEN n ELSE 0]]
               /\ response' = NoResponse
               /\ pc' = "stt closing"
    /\ UNCHANGED <<calls, session_state, script>>
    /\ UNCHANGED inside_orchestrator

\* Transcription whose cleanup runs on the success path only.
transcribe_no_finally(files, path, result) ==
    IF ~result.raised /\ "text" \in DOMAIN result.val.v
    THEN [temp_dir |-> IF path # 0 /\ Exists(files, path)
                       THEN Remove(files, path) ELSE files,
          response |-> [status_code |-> 200,
                        body |-> [text |-> result.val.v["text"]]]]
    ELSE [temp_dir |-> files,
          response |-> HttpError(500, <<"Transcription failed: ">>)]

\* Lines 115-132 of /stt: the transcription with its except and finally.
transcribe(files, path, result) ==
    [temp_dir |-> IF path # 0 /\ Exists(files, path)
                  THEN Remove(files, path) ELSE files,
     response |-> IF ~result.raised /\ "text" \in DOMAIN result.val.v
                  THEN [status_code |-> 200,
                        body |-> [text |-> result.val.v["text"]]]
                  ELSE HttpError(500, <<"Transcription failed: ">>)]

\* /stt after `await audio_file.close()`: the 400 of a failed save, or the
\* transcription.
SttFinish ==
    /\ pc = "stt closing"
    /\ IF handler.locals.save # "saved"
       THEN /\ response' = HttpError(400, <<"Could not save uploaded file: ">>)
            /\ temp_dir' = temp_dir
            /\ handler' = handler
       ELSE \E result \in TranscribeOutcomes :
            LET end == transcribe(temp_dir, handler.locals.path, result)
            IN /\ temp_dir' = end.temp_dir
               /\ response' = end.response
               /\ handler' = [handler EXCEPT !.locals.outcome = result]
    /\ pc' = "idle"
    /\ UNCHANGED <<calls, session_state, script>>
    /\ UNCHANGED inside_orchestrator

\* Lines 149-191 of /tts, up to the return of the FileResponse or to the
\* HTTPException.
TtsHandle ==
    /\ pc = "idle"
    /\ handler.locals.n < MaxRequests
    /\ \E text \in TtsTexts :
       LET n == handler.locals.n + 1
           request == [NoRequest EXCEPT !.n = n, !.endpoint = "tts", !.text = text]
       IN IF ~handler.tts_model
          THEN /\ response' = HttpError(500, <<"TTS model not loaded.">>)
               /\ handler' = [handler EXCEPT !.locals = request]
               /\ UNCHANGED <<temp_dir, pc>>
          ELSE IF IsBlank(text)
          THEN /\ response' = HttpError(400, <<"Input text cannot be empty.">>)
               /\ handler' = [handler EXCEPT !.locals = request]
               /\ UNCHANGED <<temp_dir, pc>>
          ELSE \/ \* NamedTemporaryFile fails: output_wav_path is not bound
                  /\ response' = HttpError(500, <<"TTS synthesis failed: ">>)
                  /\ handler' = [handler EXCEPT !.locals =
                                    [request EXCEPT !.save = "create failed"]]
                  /\ UNCHANGED <<temp_dir, pc>>
               \/ \E synthesis \in SynthesisOutcomes :
                  LET written == temp_dir \cup
                          {File(n, "wav", CASE synthesis = "speech" -> "speech"
                                            [] synthesis = "raises partial" -> "partial"
                                            [] OTHER -> "empty")}
                      failed == \/ synthesis \in {"raises", "raises partial"}
                                \/ ~Exists(written, n)
                                \/ IsEmptyFile(written, n)
                  IN /\ handler' = [handler EXCEPT !.locals =
                           [request EXCEPT !.save = synthesis, !.path = n]]
                     /\ IF failed
                        THEN /\ temp_dir' = IF Exists(written, n)
                                            THEN Remove(written, n) ELSE written
                             /\ response' = HttpError(500, <<"TTS synthesis failed: ">>)
                             /\ pc' = "idle"
                        ELSE /\ temp_dir' = written
                             /\ response' = NoResponse
                             /\ pc' = "tts sending"
    /\ UNCHANGED <<calls, session_state, script>>
    /\ UNCHANGED inside_orchestrator

\* The FileResponse of line 180 has been sent: it was built without a
\* background task, so nothing removes the file it served.
TtsSent ==
    /\ pc = "tts sending"
    /\ response' = [status_code |-> 200,
                    body |-> [media_type |-> "audio/wav", path |-> handler.locals.path]]
    /\ pc' = "idle"
    /\ UNCHANGED <<temp_dir, handler, calls, session_state, script>>
    /\ UNCHANGED inside_orchestrator

NextVoice ==
    \/ SttSave
    \/ SttFinish
    \/ TtsHandle
    \/ TtsSent

SpecVoice == InitVoice /\ [][NextVoice]_vars

(* ============================== claims ================================ *)

Range(seq) == { seq[i] : i \in DOMAIN seq }

CallsTo(agent) == { i \in DOMAIN calls : calls[i].agent = agent }

\* The gather has returned.
Joined == pc \in {"analysis", "synthesis", "done"}

RetrievalCallFailed == Len(tasks) >= 1 /\ tasks[1].done /\ tasks[1].outcome.raised

RetrievalCallSucceeded == Len(tasks) >= 1 /\ tasks[1].done /\ ~tasks[1].outcome.raised

\* The handler got past the retrieval check.
Aggregated == Joined /\ RetrievalCallSucceeded

\* The market-data calls, and the symbol each one asked for (read from the
\* path of its request).
ApiTasks == { i \in DOMAIN tasks : tasks[i].request.agent = "api" }

SymbolOf(task) == SubSeq(task.request.path, 2, Len(task.request.path))

\* Symbols whose own call raised / returned a non-object body.
FailedSymbols ==
    { SymbolOf(tasks[i]) : i \in { j \in ApiTasks : tasks[j].done /\ tasks[j].outcome.raised } }

UnexpectedTypeSymbols ==
    { SymbolOf(tasks[i]) :
        i \in { j \in ApiTasks : /\ tasks[j].done
                                 /\ ~tasks[j].outcome.raised
                                 /\ ~IsDict(tasks[j].outcome.val) } }

IsErrorMarker(x) == IsDict(x) /\ DOMAIN x.v = {"error"} /\ x.v["error"].t = "str"

ErrorMarkedSymbols == { s \in DOMAIN market_data_results : IsErrorMarker(market_data_results[s]) }

IsOrchestratorResponse(body) ==
    DOMAIN body = {"retrieved_context", "market_data", "analysis_results", "final_narrative"}

\* C1: when the retrieval call has failed, the request never returns an
\* OrchestratorResponse, and once it has ended its result is status 500
\* with no response body, whatever the market-data calls did.
C1_RetrievalFailureFatal ==
    RetrievalCallFailed =>
        /\ response.status_code # 200
        /\ pc \in {"gather", "done"}
        /\ pc = "done" => /\ response.status_code = 500
                          /\ ~IsOrchestratorResponse(response.body)

C1_Witness ==
    /\ pc = "done"
    /\ RetrievalCallFailed
    /\ IsHTTPException(tasks[1].outcome.val)
    /\ \E i \in DOMAIN tasks : i > 1 /\ ~tasks[i].outcome.raised
    /\ \E i \in DOMAIN tasks : i > 1 /\ tasks[i].outcome.raised
    /\ response.status_code = 500

\* C2: a request whose retrieval call succeeded calls the synthesis
\* collaborator exactly once by the time it ends (never more at any time),
\* whether the analysis call succeeded, failed or was skipped, and the
\* payload of that call carries the whole market_data_results: one entry
\* per symbol, the error markers included.
C2_SynthesisOnceWithAllMarketData ==
    /\ Cardinality(CallsTo("language")) <= 1
    /\ (pc = "done" /\ RetrievalCallSucceeded) => Cardinality(CallsTo("language")) = 1
    /\ (Aggregated /\ pc # "analysis") => Cardinality(CallsTo("language")) = 1
    /\ \A i \in CallsTo("language") :
         /\ calls[i].json.market_data = market_data_results
         /\ DOMAIN calls[i].json.market_data = Range(symbols_to_fetch)
         /\ \A s \in FailedSymbols \cup UnexpectedTypeSymbols :
              IsErrorMarker(calls[i].json.market_data[s])
         /\ calls[i].json.query = query
         /\ calls[i].json.retrieved_context = retrieved_data
         /\ calls[i].json.analysis_results = analysis_results

C2_Witness ==
    /\ pc = "done"
    /\ RetrievalCallSucceeded
    /\ analysis_call.done /\ analysis_call.outcome.raised
    /\ FailedSymbols # {}
    /\ Cardinality(CallsTo("language")) = 1

\* C3: with N extracted symbols the fan-out launches N+1 calls, the
\* retrieval call first and one market-data call per symbol; the join
\* returns N+1 results of which the first is the retrieval call's and the
\* one read for each symbol is the result of that symbol's own call, in
\* whatever order the calls completed.
C3_FanOutJoinAttribution ==
    pc # "start" =>
        LET n == Cardinality(extracted_symbols)
        IN /\ Len(symbols_to_fetch) = n
           /\ Range(symbols_to_fetch) = extracted_symbols
           /\ Len(tasks) = n + 1
           /\ Cardinality(CallsTo("retriever")) = 1
           /\ Cardinality(CallsTo("api")) = n
           /\ tasks[1].request = RetrieverRequest(query)
           /\ Cardinality(ApiTasks) = n
           /\ { SymbolOf(tasks[i]) : i \in ApiTasks } = extracted_symbols
           /\ \A i \in ApiTasks : tasks[i].request = ApiRequest(SymbolOf(tasks[i]))
           /\ Joined =>
                /\ Len(initial_results) = n + 1
                /\ initial_results[1] = tasks[1].outcome.val
                /\ \A k \in 1..n : \A i \in ApiTasks :
                     SymbolOf(tasks[i]) = symbols_to_fetch[k] =>
                        initial_results[k + 1] = tasks[i].outcome.val
                /\ RetrievalCallSucceeded =>
                     \A i \in ApiTasks :
                        market_data_results[SymbolOf(tasks[i])] =
                            market_data_entry(SymbolOf(tasks[i]), tasks[i].outcome.val)

C3_Witness ==
    /\ pc = "analysis"
    /\ Len(symbols_to_fetch) = 2
    /\ IsException(initial_results[2])
    /\ admitted_for_analysis(symbols_to_fetch[2], initial_results[3])
    /\ Get(Get(initial_results[3], "info", Null), "symbol", Null) = Str(symbols_to_fetch[2])
    /\ IsErrorMarker(market_data_results[symbols_to_fetch[1]])

\* C4: the market_data of every returned OrchestratorResponse has exactly
\* the extracted symbols as its keys, whether a symbol's call succeeded,
\* failed or returned an unexpected type.
C4_MarketDataKeysAreSymbolSet ==
    response.status_code = 200 =>
        DOMAIN response.body.market_data = extracted_symbols

C4_Witness ==
    /\ response.status_code = 200
    /\ FailedSymbols # {}
    /\ UnexpectedTypeSymbols # {}
    /\ DOMAIN response.body.market_data = FailedSymbols \cup UnexpectedTypeSymbols

C6_NoValidDataSkipsAnalysis ==
    /\ (Aggregated /\ DOMAIN valid_market_data_for_analysis = {}) =>
          /\ CallsTo("analysis") = {}
          /\ ~analysis_call.done
          /\ pc # "analysis"
          /\ analysis_results = Dict([error |-> Str(<<"No valid market data for analysis">>)])
    /\ (pc = "done" /\ RetrievalCallFailed) => CallsTo("analysis") = {}

C6_Witness ==
    /\ pc = "done"
    /\ Aggregated
    /\ Len(symbols_to_fetch) = 2
    /\ DOMAIN valid_market_data_for_analysis = {}
    /\ FailedSymbols # {}
    /\ response.status_code = 200
    /\ response.body.analysis_results = NoValidMarketData

C8_SynthesisFailureRecovered ==
    (pc = "done" /\ language_call.done /\ language_call.outcome.raised) =>
        /\ final_narrative.t = "str"
        /\ StartsWith(final_narrative.v, "Error:")
        /\ response.status_code = 200
        /\ IsOrchestratorResponse(response.body)

\* C9: every request ends either with a complete OrchestratorResponse
\* (status 200; retrieved_context a list, market_data a map,
\* analysis_results a map, final_narrative a string) or with a fatal error,
\* and the fatal error occurs only when the retrieval call failed.
C9_ResponseOrRetrievalFatal ==
    pc = "done" =>
        \/ /\ response.status_code = 200
           /\ IsOrchestratorResponse(response.body)
           /\ response.body.retrieved_context.t = "list"
           /\ IsDict(response.body.analysis_results)
           /\ response.body.final_narrative.t = "str"
        \/ /\ response.status_code = 500
           /\ RetrievalCallFailed

\* The way call_agent must have ended for the response it got.
CallEndedAsCoded(call) ==
    /\ call.http.kind = "RequestError" =>
         /\ call.outcome.raised
         /\ IsHTTPException(call.outcome.val)
         /\ call.outcome.val.v.status_code = 503
    /\ (call.http.kind = "response" /\ call.http.status_code \in 400..599) =>
         /\ call.outcome.raised
         /\ IsHTTPException(call.outcome.val)
         /\ call.outcome.val.v.status_code = call.http.status_code
         /\ call.outcome.val.v.detail = <<"Agent error: ">> \o call.http.text
    /\ (call.http.kind = "response" /\ call.http.status_code \in 200..299) =>
         IF call.http.parses
         THEN call.outcome = Return(call.http.json)
         ELSE call.outcome.raised /\ ~IsHTTPException(call.outcome.val)

\* C10 as stated: call_agent never raises; every finished call has
\* returned a value to its caller.
C10_AsStated ==
    /\ \A i \in DOMAIN tasks : tasks[i].done => ~tasks[i].outcome.raised
    /\ analysis_call.done => ~analysis_call.outcome.raised
    /\ language_call.done => ~language_call.outcome.raised

\* C10 amended: call_agent returns the parsed body of a 2xx response and
\* raises otherwise: HTTPException(503) on a transport failure,
\* HTTPException with the remote status and body on a 4xx/5xx response, the
\* decoding error on an unparseable body.  The failure becomes a value only
\* in the callers: the gather returns the exception as the call's result,
\* and no status raised by call_agent is the status of the request.
C10_RaisesAndCallersCapture ==
    /\ \A i \in DOMAIN tasks : tasks[i].done => CallEndedAsCoded(tasks[i])
    /\ analysis_call.done => CallEndedAsCoded(analysis_call)
    /\ language_call.done => CallEndedAsCoded(language_call)
    /\ Joined => \A i \in DOMAIN tasks :
                    tasks[i].outcome.raised =>
                        /\ IsException(initial_results[i])
                        /\ initial_results[i] = tasks[i].outcome.val
    /\ response.status_code \in {0, 200, 500}
    /\ (pc = "done" /\ response = RetrievalFailed) => RetrievalCallFailed

C10_Witness ==
    /\ pc = "done"
    /\ response.status_code = 200
    /\ \E i \in DOMAIN tasks : /\ tasks[i].http.kind = "response"
                               /\ tasks[i].http.status_code = 404
                               /\ tasks[i].outcome.raised
    /\ \E i \in DOMAIN tasks : i > 1 /\ tasks[i].http.kind = "RequestError"
    /\ language_call.outcome.raised

\* The three classes of the outcome of a call, as call_agent hands them on.
IsTransportFailure(call) ==
    /\ call.outcome.raised
    /\ IsHTTPException(call.outcome.val)
    /\ call.outcome.val.v.status_code = 503
    /\ call.outcome.val.v.detail = <<"Agent call failed: ">> \o call.http.text

IsRejectedFailure(call) ==
    /\ call.outcome.raised
    /\ IsHTTPException(call.outcome.val)
    /\ call.outcome.val.v.status_code = call.http.status_code
    /\ call.outcome.val.v.detail = <<"Agent error: ">> \o call.http.text

IsSuccess(call) ==
    /\ ~call.outcome.raised
    /\ call.http.parses
    /\ call.outcome.val = call.http.json

\* A fourth way to end: the body of a 2xx response does not parse and the
\* decoding error leaves call_agent as it is.
IsDecodingError(call) ==
    /\ call.outcome.raised
    /\ ~IsHTTPException(call.outcome.val)
    /\ call.outcome.val.t = "JSONDecodeError"

InErrorRange(status_code) == status_code \in 400..599

HasNonEmptyInfo(payload) ==
    /\ IsDict(payload)
    /\ "info" \in DOMAIN payload.v
    /\ IsDict(payload.v["info"])
    /\ DOMAIN payload.v["info"].v # {}

\* C12: a symbol is in valid_market_data_for_analysis only when its own
\* call succeeded with a payload whose `info` is a non-empty mapping; a
\* symbol whose call succeeded with a payload that lacks `info`, or whose
\* `info` is empty or not a mapping, keeps its raw payload in
\* market_data_results and is absent from the analysis input.
C12_OnlyNonEmptyInfoAdmitted ==
    Aggregated =>
        \A i \in ApiTasks :
            LET symbol == SymbolOf(tasks[i])
                outcome == tasks[i].outcome
            IN /\ symbol \in DOMAIN valid_market_data_for_analysis =>
                    ~outcome.raised /\ HasNonEmptyInfo(outcome.val)
               /\ (~outcome.raised /\ IsDict(outcome.val) /\ ~HasNonEmptyInfo(outcome.val)) =>
                    /\ market_data_results[symbol] = outcome.val
                    /\ symbol \notin DOMAIN valid_market_data_for_analysis

\* The words of a text: its maximal runs of letters, digits and "_".
Words(text) ==
    { SubSeq(text, p[1], p[2]) : p \in
        { p \in (1..Len(text)) \X (1..Len(text)) :
            /\ p[1] <= p[2]
            /\ \A k \in p[1]..p[2] : IsWordChar(text[k])
            /\ (p[1] = 1 \/ ~IsWordChar(text[p[1] - 1]))
            /\ (p[2] = Len(text) \/ ~IsWordChar(text[p[2] + 1])) } }

IsAllCaps(word) == \A k \in DOMAIN word : IsUpperLetter(word[k])

MentionsCompany(text) ==
    \E name \in DOMAIN COMPANY_NAME_TO_SYMBOL_MAP : Contains(Upper(text), name)

\* The modelled queries with no company name and no all-caps word.
PlainQueries ==
    { q \in AllQueries : ~MentionsCompany(q) /\ \A w \in Words(q) : ~IsAllCaps(w) }

\* C13: for a query with no recognizable company name and no all-caps
\* token the symbol set is empty, no market-data call is issued, the fan-out
\* is the retrieval call alone, and the request goes on: when retrieval
\* succeeds it reaches the synthesis call with an empty market_data_results.
C13_NoSymbolsNoMarketCalls ==
    (pc # "start" /\ query \in PlainQueries) =>
        /\ extracted_symbols = {}
        /\ symbols_to_fetch = <<>>
        /\ CallsTo("api") = {}
        /\ Len(tasks) = 1
        /\ tasks[1].request = RetrieverRequest(query)
        /\ pc = "gather" => calls = <<RetrieverRequest(query)>>
        /\ Aggregated =>
             /\ pc \in {"synthesis", "done"}
             /\ market_data_results = <<>>
             /\ CallsTo("analysis") = {}
             /\ Cardinality(CallsTo("language")) = 1
        /\ (pc = "done" /\ RetrievalCallSucceeded) =>
             \/ response.status_code = 200
             \/ ~OrchestratorResponseValid(retrieved_data, analysis_results, final_narrative)

C13_Witness ==
    /\ pc = "done"
    /\ query = QueryMixed
    /\ query \in PlainQueries
    /\ PlainQueries = {QueryNone, QueryEmpty, QueryMixed}
    /\ Len(tasks) = 1
    /\ response.status_code = 200
    /\ response.body.market_data = <<>>

\* C14: the handler has one join point: from the launch of the N+1 calls
\* until all of them have settled it stays suspended at the gather and has
\* taken no further step: no result read, no fatal error raised, no
\* analysis or synthesis call issued.
C14_SingleJoin ==
    /\ (pc # "start" /\ \E i \in DOMAIN tasks : ~tasks[i].done) => pc = "gather"
    /\ pc = "gather" =>
         /\ initial_results = <<>>
         /\ response = NoResponse
         /\ retrieved_data = Unbound
         /\ market_data_results = <<>>
         /\ valid_market_data_for_analysis = <<>>
         /\ analysis_results = Unbound
         /\ final_narrative = Unbound
         /\ CallsTo("analysis") = {} /\ CallsTo("language") = {}
         /\ Len(calls) = Len(tasks)
    /\ Joined =>
         /\ \A i \in DOMAIN tasks : tasks[i].done
         /\ Len(initial_results) = Len(tasks)

C14_Witness ==
    /\ pc = "gather"
    /\ Len(tasks) = 3
    /\ tasks[1].done /\ tasks[1].outcome.raised
    /\ tasks[2].done /\ ~tasks[2].outcome.raised
    /\ ~tasks[3].done
    /\ response = NoResponse

\* C15: after the join the analysis and synthesis calls are strictly
\* sequential: while the analysis call is in flight no synthesis call
\* exists, every synthesis call comes after the analysis call in the call
\* log, and the analysis_results it carries is the final value of the
\* analysis step (the collaborator's body, the failure marker, or the
\* default marker when the step was skipped).
C15_AnalysisThenSynthesis ==
    /\ pc = "analysis" =>
         /\ ~analysis_call.done
         /\ CallsTo("language") = {}
         /\ language_call = NotCalled
    /\ \A i \in CallsTo("language") :
         /\ analysis_call = NotCalled \/ analysis_call.done
         /\ \A j \in CallsTo("analysis") : j < i
         /\ calls[i].json.analysis_results = analysis_results
         /\ analysis_call = NotCalled =>
              /\ CallsTo("analysis") = {}
              /\ calls[i].json.analysis_results = NoValidMarketData
         /\ (analysis_call.done /\ ~analysis_call.outcome.raised) =>
              calls[i].json.analysis_results = analysis_call.outcome.val
         /\ (analysis_call.done /\ analysis_call.outcome.raised) =>
              /\ "error" \in DOMAIN calls[i].json.analysis_results.v
              /\ calls[i].json.analysis_results # NoValidMarketData

C15_Witness ==
    /\ pc = "done"
    /\ analysis_call.done /\ ~analysis_call.outcome.raised
    /\ analysis_call.outcome.val # NoValidMarketData
    /\ \E i \in CallsTo("language") :
         /\ i = Len(calls)
         /\ calls[i].json.analysis_results = analysis_call.outcome.val
         /\ \E j \in CallsTo("analysis") : j = i - 1

\* C16: no retries: within one request the retrieval, analysis and
\* synthesis collaborators are each called at most once and each symbol's
\* market-data endpoint at most once, so the call log never holds more than
\* N+3 calls, whatever failed.
C16_NoRetries ==
    /\ \A agent \in {"retriever", "analysis", "language"} :
         Cardinality(CallsTo(agent)) <= 1
    /\ \A i, j \in CallsTo("api") : calls[i].path = calls[j].path => i = j
    /\ \A i \in CallsTo("api") :
         SubSeq(calls[i].path, 2, Len(calls[i].path)) \in extracted_symbols
    /\ Len(calls) <= Cardinality(extracted_symbols) + 3

C16_Witness ==
    /\ pc = "done"
    /\ Len(tasks) = 3
    /\ \E i \in {2, 3} : tasks[i].outcome.raised
    /\ analysis_call.done /\ analysis_call.outcome.raised
    /\ language_call.done /\ language_call.outcome.raised
    /\ Len(calls) = 5

\* The `results` sequence of the retrieval collaborator's body.
RetrievalResults == tasks[1].http.json.v["results"]

HasRetrievalResults ==
    /\ RetrievalCallSucceeded
    /\ IsDict(tasks[1].http.json)
    /\ "results" \in DOMAIN tasks[1].http.json.v
    /\ RetrievalResults.t = "list"

\* Entry by entry, same length, same order, same {id, text, score}.
SameEntries(a, b) ==
    /\ a.t = "list" /\ b.t = "list"
    /\ Len(a.v) = Len(b.v)
    /\ \A i \in DOMAIN a.v :
         \A f \in {"id", "text", "score"} : a.v[i].v[f] = b.v[i].v[f]

\* C17: round trip of the retrieved context: when the retrieval body
\* carries a `results` sequence, the retrieved_context sent to the synthesis
\* collaborator and the one returned in the OrchestratorResponse are that
\* sequence, every entry's {id, text, score} and the order unchanged.
C17_RetrievedContextRoundTrip ==
    (Joined /\ HasRetrievalResults) =>
        /\ retrieved_data = RetrievalResults
        /\ \A i \in CallsTo("language") :
             /\ calls[i].json.retrieved_context = RetrievalResults
             /\ SameEntries(calls[i].json.retrieved_context, RetrievalResults)
        /\ (pc = "done" /\ response.status_code = 200) =>
             /\ response.body.retrieved_context = RetrievalResults
             /\ SameEntries(response.body.retrieved_context, RetrievalResults)

C17_Witness ==
    /\ pc = "done"
    /\ HasRetrievalResults
    /\ Len(RetrievalResults.v) = 2
    /\ RetrievalResults.v[1] # RetrievalResults.v[2]
    /\ response.status_code = 200
    /\ response.body.retrieved_context.v = <<ResultEntry(1), ResultEntry(2)>>
    /\ \E i \in CallsTo("language") :
         calls[i].json.retrieved_context.v = <<ResultEntry(1), ResultEntry(2)>>

\* The tickers of the company names occurring in the upper-cased query.
NamedTickers(text) ==
    { COMPANY_NAME_TO_SYMBOL_MAP[n] :
        n \in { m \in DOMAIN COMPANY_NAME_TO_SYMBOL_MAP : Contains(Upper(text), m) } }

\* The words of the query as typed that are 1 to 5 uppercase letters.
CapsTokens(text) ==
    { w \in Words(text) : IsAllCaps(w) /\ Len(w) >= 1 /\ Len(w) <= 5 }

ExpectedSymbols == [q \in AllQueries |-> NamedTickers(q) \cup CapsTokens(q)]

\* C18: symbol extraction yields exactly the deduplicated union of the
\* tickers of the company names found in the upper-cased query and of the
\* words of 1 to 5 uppercase letters of the query as typed: "How is TSM
\* doing?" gives {TSM}, "What about Apple and XYZ?" gives {AAPL, XYZ}, and
\* the list of symbols to fetch holds each of them once.
C18_ExtractionIsDeduplicatedUnion ==
    pc # "start" =>
        /\ extracted_symbols = ExpectedSymbols[query]
        /\ query = QueryTSM => extracted_symbols = {<<"T","S","M">>}
        /\ query = QueryAppleXYZ =>
             extracted_symbols = {<<"A","A","P","L">>, <<"X","Y","Z">>}
        /\ query = QueryMETA => extracted_symbols = {<<"M","E","T","A">>}
        /\ query = QueryThree =>
             extracted_symbols = {<<"M","E","T","A">>, <<"I","B","M">>, <<"V">>}
        /\ query = QueryLong => extracted_symbols = {<<"T">>}
        /\ query \in {QueryNone, QueryEmpty, QueryMixed} => extracted_symbols = {}
        /\ Range(symbols_to_fetch) = extracted_symbols
        /\ Len(symbols_to_fetch) = Cardinality(extracted_symbols)

C18_Witness ==
    /\ pc # "start"
    /\ query = QueryAppleXYZ
    /\ NamedTickers(query) = {<<"A","A","P","L">>}
    /\ CapsTokens(query) = {<<"X","Y","Z">>}
    /\ extracted_symbols = {<<"A","A","P","L">>, <<"X","Y","Z">>}
    /\ Len(symbols_to_fetch) = 2

\* C19: failure isolation between symbols: after the aggregation the
\* market_data_results entry of a symbol and its membership in the analysis
\* input are fixed by the outcome of that symbol's own call, whatever the
\* other calls did: a raised call gives that symbol its failure marker and
\* keeps it out of the analysis input; a returned object is stored as it
\* came and admitted exactly when its `info` is an object; any other
\* returned value gives the unexpected-type marker.
C19_FailureIsolation ==
    Aggregated =>
      \A i \in ApiTasks :
        LET s == SymbolOf(tasks[i])
            own == tasks[i].outcome
            valid == valid_market_data_for_analysis
        IN /\ s \in DOMAIN market_data_results
           /\ own.raised =>
                /\ market_data_results[s] =
                     Dict([error |-> Str(<<"Failed to fetch data for ">> \o s)])
                /\ s \notin DOMAIN valid
           /\ (~own.raised /\ own.val.t = "dict") =>
                /\ market_data_results[s] = own.val
                /\ s \in DOMAIN valid <=>
                     ("info" \in DOMAIN own.val.v /\ own.val.v["info"].t = "dict")
                /\ s \in DOMAIN valid =>
                     valid[s] = Dict([symbol |-> Str(s), info |-> own.val.v["info"]])
           /\ (~own.raised /\ own.val.t # "dict") =>
                /\ market_data_results[s] =
                     Dict([error |-> Str(<<"Unexpected response type from API agent">>)])
                /\ s \notin DOMAIN valid

C19_Witness ==
    /\ Aggregated
    /\ Len(tasks) = 3
    /\ tasks[2].outcome.raised
    /\ ~tasks[3].outcome.raised
    /\ SymbolOf(tasks[2]) \in FailedSymbols
    /\ SymbolOf(tasks[3]) \in DOMAIN valid_market_data_for_analysis
    /\ market_data_results[SymbolOf(tasks[3])] = tasks[3].outcome.val
    /\ DOMAIN market_data_results[SymbolOf(tasks[2])].v = {"error"}

\* C20: retrieved_context is never null: whenever the retrieval call
\* succeeded, the value unwrapped from it, passed to the synthesis call and
\* put in the response is a sequence, and it is the empty list when the
\* retrieval body has no `results` sequence.
C20_RetrievedContextNeverNull ==
    Aggregated =>
        /\ retrieved_data.t = "list"
        /\ ~HasRetrievalResults => retrieved_data = List(<<>>)
        /\ \A i \in CallsTo("language") : calls[i].json.retrieved_context.t = "list"

\* The retrieval collaborator answered 2xx with a JSON body that is not an
\* object.
RetrievalNotObject == RetrievalCallSucceeded /\ ~IsDict(tasks[1].outcome.val)

\* C21 as stated: a retrieval failure of any kind, a non-object body
\* included, is fatal: no OrchestratorResponse is returned.
C21_AsStated ==
    (RetrievalCallFailed \/ RetrievalNotObject) => response.status_code # 200

\* C21: a retrieval call that raised (transport failure, 4xx/5xx, or a 2xx
\* body that is not JSON) is fatal: once the handler has resumed the
\* request has ended with status 500 "Failed to retrieve context." and no
\* second-stage call; a JSON body that is not an object is not fatal: the
\* retrieved context is the empty list and the request goes on to the
\* synthesis call with it.
C21_RaisedIsFatalNotObjectIsEmpty ==
    /\ (Joined /\ RetrievalCallFailed) =>
         /\ pc = "done"
         /\ response = RetrievalFailed
         /\ CallsTo("analysis") \cup CallsTo("language") = {}
    /\ (Joined /\ RetrievalNotObject) =>
         /\ retrieved_data = List(<<>>)
         /\ response # RetrievalFailed
         /\ pc \in {"synthesis", "done"} =>
              \E i \in CallsTo("language") :
                  calls[i].json.retrieved_context = List(<<>>)
         /\ (pc = "done" /\ response.status_code = 200) =>
              response.body.retrieved_context = List(<<>>)

C21_Witness ==
    /\ pc = "done"
    /\ RetrievalNotObject
    /\ tasks[1].http = JsonResponse(200, List(<<>>))
    /\ response.status_code = 200
    /\ response.body.retrieved_context = List(<<>>)

\* Calls that were launched and have not settled.
InFlight ==
    { i \in DOMAIN tasks : ~tasks[i].done }

SecondStageInFlight ==
    \/ (analysis_call # NotCalled /\ ~analysis_call.done)
    \/ (language_call # NotCalled /\ ~language_call.done)

\* C22: on every exit path of process_query, the fatal retrieval-failure
\* path included, every launched call has settled and the HTTP client has
\* been closed by the time the request ends; and while any call is in
\* flight the client is still open.
C22_NothingLeftRunning ==
    /\ pc = "done" =>
         /\ client = "closed"
         /\ InFlight = {}
         /\ ~SecondStageInFlight
         /\ \A i \in ApiTasks : tasks[i].done /\ tasks[i].http # NoHttp
    /\ (InFlight # {} \/ SecondStageInFlight) => client = "open"
    /\ client = "closed" => pc = "done"

C22_Witness ==
    /\ pc = "done"
    /\ response = RetrievalFailed
    /\ RetrievalCallFailed
    /\ Len(tasks) = 3
    /\ \A i \in ApiTasks : tasks[i].done
    /\ client = "closed"

\* What request r computes from its own query and the outcomes of its own
\* calls alone.
Alone(r) ==
    LET results == gather(tasks[r])
        agg == check_api_results(1, symbols_to_fetch[r], results, <<>>, <<>>)
        ar == IF analysis_call[r].done
              THEN analysis_result_of(analysis_call[r].outcome)
              ELSE NoValidMarketData
        fn == IF language_call[r].done
              THEN narrative_of(language_call[r].outcome)
              ELSE DefaultNarrative
    IN [retrieved_data |-> unwrap_retrieval(results[1]),
        market_data_results |-> agg.market_data_results,
        valid_market_data_for_analysis |-> agg.valid_market_data_for_analysis,
        analysis_results |-> ar,
        final_narrative |-> fn]

PairAggregated(r) ==
    /\ pc[r] \in {"analysis", "synthesis", "done"}
    /\ ~tasks[r][1].outcome.raised

\* C23: requests are independent: with two requests interleaved, what
\* each request holds in market_data_results, valid_market_data_for_analysis,
\* analysis_results and final_narrative, what it sends to the analysis and
\* synthesis collaborators and what it returns are what it computes alone
\* from its own query and the outcomes of its own calls; its market data
\* has entries for its own symbols only.
C23_RequestsIndependent ==
    \A r \in RequestIds :
      PairAggregated(r) =>
        LET alone == Alone(r)
        IN /\ market_data_results[r] = alone.market_data_results
           /\ DOMAIN market_data_results[r] = extracted_symbols[r]
           /\ valid_market_data_for_analysis[r] = alone.valid_market_data_for_analysis
           /\ analysis_results[r] = alone.analysis_results
           /\ retrieved_data[r] = alone.retrieved_data
           /\ analysis_call[r] # NotCalled =>
                analysis_call[r].request =
                    AnalysisRequest(alone.valid_market_data_for_analysis)
           /\ pc[r] \in {"synthesis", "done"} =>
                /\ final_narrative[r] = alone.final_narrative
                /\ language_call[r].request.json =
                     [query |-> query[r],
                      retrieved_context |-> alone.retrieved_data,
                      analysis_results |-> alone.analysis_results,
                      market_data |-> alone.market_data_results]
           /\ pc[r] = "done" =>
                /\ response[r].status_code = 200
                /\ response[r].body =
                     [retrieved_context |-> alone.retrieved_data,
                      market_data |-> alone.market_data_results,
                      analysis_results |-> alone.analysis_results,
                      final_narrative |-> alone.final_narrative]

C23_Witness ==
    /\ pc[1] = "done" /\ pc[2] = "done"
    /\ PairAggregated(1) /\ PairAggregated(2)
    /\ query[1] = QueryTSM /\ query[2] = QueryMETA
    /\ response[1].status_code = 200 /\ response[2].status_code = 200
    /\ DOMAIN response[1].body.market_data = {<<"T","S","M">>}
    /\ DOMAIN response[2].body.market_data = {<<"M","E","T","A">>}
    /\ "error" \in DOMAIN response[1].body.analysis_results.v
    /\ "risk_metrics" \in DOMAIN response[2].body.analysis_results.v
    /\ response[1].body.final_narrative # response[2].body.final_narrative

\* C24: when the retrieval call has failed, neither the analysis nor the
\* synthesis collaborator is called in that request: the call log holds the
\* N+1 first-stage calls and nothing else, and the second-stage values are
\* never bound.
C24_NoSecondStageAfterRetrievalFailure ==
    RetrievalCallFailed =>
        /\ CallsTo("analysis") = {}
        /\ CallsTo("language") = {}
        /\ analysis_call = NotCalled
        /\ language_call = NotCalled
        /\ Len(calls) = Len(tasks)
        /\ analysis_results = Unbound
        /\ final_narrative = Unbound

C24_Witness ==
    /\ pc = "done"
    /\ RetrievalCallFailed
    /\ tasks[1].http.status_code = 500
    /\ \E i \in ApiTasks :
         /\ ~tasks[i].outcome.raised
         /\ HasNonEmptyInfo(tasks[i].outcome.val)
    /\ Len(calls) = Len(tasks)

\* Symbols whose market_data_results entry is a payload, not an error marker.
NonErrorSymbols ==
    { s \in DOMAIN market_data_results : ~IsErrorMarker(market_data_results[s]) }

\* C25: in every reachable state the keys of
\* valid_market_data_for_analysis are among the symbols whose
\* market_data_results entry is a non-error payload, and each analysis-input
\* entry is an object with exactly the fields symbol and info, its symbol
\* being its own key and its info the info of that symbol's own payload;
\* the analysis call, when issued, carries exactly these entries.
C25_AnalysisInputShape ==
    /\ DOMAIN valid_market_data_for_analysis \subseteq NonErrorSymbols
    /\ DOMAIN valid_market_data_for_analysis \subseteq extracted_symbols
    /\ \A s \in DOMAIN valid_market_data_for_analysis :
         LET entry == valid_market_data_for_analysis[s]
         IN /\ entry.t = "dict"
            /\ DOMAIN entry.v = {"symbol", "info"}
            /\ entry.v["symbol"] = Str(s)
            /\ "info" \in DOMAIN market_data_results[s].v
            /\ entry.v["info"] = market_data_results[s].v["info"]
            /\ entry.v["info"].t = "dict"
            /\ \E i \in ApiTasks :
                 /\ SymbolOf(tasks[i]) = s
                 /\ ~tasks[i].outcome.raised
                 /\ market_data_results[s] = tasks[i].outcome.val
    /\ \A i \in CallsTo("analysis") :
         calls[i].json.market_data = valid_market_data_for_analysis

C25_Witness ==
    /\ pc = "done"
    /\ Cardinality(DOMAIN valid_market_data_for_analysis) = 1
    /\ Cardinality(NonErrorSymbols) = 2
    /\ \E s \in DOMAIN valid_market_data_for_analysis :
         /\ valid_market_data_for_analysis[s].v["symbol"] = Str(s)
         /\ "price" \in DOMAIN market_data_results[s].v
         /\ "sector" \in DOMAIN valid_market_data_for_analysis[s].v["info"].v
    /\ CallsTo("analysis") # {}

\* The request has ended.
Completed == pc = "done" /\ response # NoResponse

\* C26: provided every collaborator call eventually settles, every request
\* eventually completes, with either an OrchestratorResponse or the fatal
\* retrieval error.
C26_CompletesWithResponseOrFatal ==
    <>(Completed /\ \/ (response.status_code = 200 /\ IsOrchestratorResponse(response.body))
                    \/ response = RetrievalFailed)

\* Every request eventually ends, whatever it ends with.
C26_Terminates == <>Completed

PageCallsTo(agent) == { i \in DOMAIN calls : calls[i].agent = agent }

\* C27: in the Streamlit session audio_bytes is set only beside a narrative
\* that is set and does not start with "Error:", and a non-empty audio is
\* the speech of that very narrative; from the start of a new query until
\* the orchestrator has answered, narrative, audio_bytes and raw_data are
\* all cleared; and TTS is never called for an empty or an error narrative.
C27_AudioOnlyBesideItsNarrative ==
    /\ session_state.audio_bytes # Null =>
         /\ session_state.narrative # Null
         /\ session_state.narrative.t = "str"
         /\ ~StartsWith(session_state.narrative.v, "Error:")
         /\ session_state.audio_bytes.v # <<>> =>
              session_state.audio_bytes.v = session_state.narrative.v
         /\ session_state.raw_data # Null
         /\ session_state.raw_data.v["final_narrative"] = session_state.narrative
    /\ pc \in {"processing", "orchestrator", "orchestrator_failed"} =>
         /\ session_state.narrative = Null
         /\ session_state.audio_bytes = Null
         /\ session_state.raw_data = Null
         /\ session_state.last_query = script.query_text
    /\ pc \in {"synthesizing", "tts"} => session_state.audio_bytes = Null
    /\ \A i \in PageCallsTo("voice") :
         /\ calls[i].json.text # <<>>
         /\ ~StartsWith(calls[i].json.text, "Error:")

C27_Witness ==
    /\ pc = "idle"
    /\ script.run = 2
    /\ Cardinality(PageCallsTo("orchestrator")) = 2
    /\ Cardinality(PageCallsTo("voice")) = 1
    /\ calls[2].agent = "voice"
    /\ session_state.narrative # Null
    /\ StartsWith(session_state.narrative.v, "Error:")
    /\ session_state.audio_bytes = Null
    /\ session_state.raw_data # Null

\* A script run starts: it takes a query up only when the query differs
\* from the last_query it found, and calls nobody yet.
RunTakesUpNewQueryOnly ==
    /\ script'.query_text # Null =>
         /\ script'.query_text # session_state.last_query
         /\ script'.query_text = session_state'.last_query
         /\ pc' = "processing"
    /\ script'.query_text = Null =>
         /\ pc' = "idle"
         /\ session_state' = session_state
    /\ calls' = calls

\* The run that starts brings nothing but the query of the run before it,
\* whose orchestrator call has failed.
ResubmitsFailedQuery ==
    /\ pc = "idle"
    /\ session_state.narrative = OrchestratorFailedNarrative
    /\ script.query_text # Null
    /\ script'.audio \in {NoAudio, script.query_text}
    /\ script'.text_input \in {Str(<<>>), script.query_text}

OrchestratorCalledForLastQuery ==
    /\ pc = "processing"
    /\ calls' = Append(calls, OrchestratorCall(session_state.last_query))
    /\ session_state.last_query = script.query_text

PageStepAsClaimed ==
    /\ script'.run # script.run => RunTakesUpNewQueryOnly
    /\ (script'.run # script.run /\ ResubmitsFailedQuery) =>
           (pc' = "idle" /\ session_state' = session_state)
    /\ PageCallsTo("orchestrator")' # PageCallsTo("orchestrator") =>
           OrchestratorCalledForLastQuery

\* C28: a voice or text query equal to session_state.last_query never
\* triggers an orchestrator call: a script run takes a query up only when
\* it differs from the last_query it found, records it as last_query
\* before the call, and the orchestrator is called for that recorded query
\* only; a run that brings nothing but the query whose attempt has just
\* failed changes nothing and calls nobody.
C28_LastQueryNotProcessedAgain == [][PageStepAsClaimed]_vars

C28_Witness ==
    /\ pc = "idle"
    /\ script.run = 2
    /\ script.submit_button
    /\ script.text_input \in PageQueries
    /\ script.text_input = session_state.last_query
    /\ script.query_text = Null
    /\ session_state.narrative = OrchestratorFailedNarrative
    /\ Cardinality(PageCallsTo("orchestrator")) = 1

\* Completely saved uploads that are in TEMP_DIR.
SavedUploads == { f \in temp_dir : f.kind = "upload" /\ f.content = "audio" }

SttEnded == pc = "idle" /\ handler.locals.endpoint = "stt" /\ handler.stt_model

\* C29: /stt: an upload that has been saved to its temporary file is in
\* TEMP_DIR only while its own request is running and is gone when the
\* request ends, whether the transcription returned or raised; a failed
\* save ends with status 400, a failed transcription with status 500, a
\* transcription that gave a text with status 200 and that text.
C29_SavedUploadRemoved ==
    /\ \A f \in SavedUploads :
         /\ pc = "stt closing"
         /\ f.name = handler.locals.path
    /\ SttEnded =>
         /\ ~Exists(temp_dir, handler.locals.n) \/ handler.locals.save = "copy failed"
         /\ handler.locals.save # "saved" => response.status_code = 400
         /\ (handler.locals.save = "saved" /\ handler.locals.outcome.raised) =>
              response.status_code = 500
         /\ ( /\ handler.locals.save = "saved"
              /\ ~handler.locals.outcome.raised
              /\ "text" \in DOMAIN handler.locals.outcome.val.v ) =>
                 /\ response.status_code = 200
                 /\ response.body.text = handler.locals.outcome.val.v["text"]

C29_Witness ==
    /\ SttEnded
    /\ handler.locals.n = 2
    /\ handler.locals.save = "saved"
    /\ handler.locals.outcome.raised
    /\ response.status_code = 500
    /\ SavedUploads = {}
    /\ ~Exists(temp_dir, 2)

\* Output files of /tts requests that are in TEMP_DIR.
WavFiles == { f \in temp_dir : f.kind = "wav" }

\* C30: /tts: the temporary WAV file of a request is cleaned up on every
\* path, so that when no request is running no output file of a finished
\* request is in TEMP_DIR.
C30_NoWavFileRemains ==
    pc = "idle" => WavFiles = {}

====
